---- MODULE Spec2Model ----
(***************************************************************************)
(* Xenopixel saber BLE protocol: the JSON codec of                         *)
(* src/xenopixel_ble/protocol.py and the BLE sessions run by               *)
(* tools/test_saber.py (send_command, send_blind_command,                  *)
(* connect_and_read).                                                      *)
(***************************************************************************)
EXTENDS Integers, Sequences, FiniteSets, TLC

(***************************************************************************)
(* JSON values.  A value carries its JSON type, because the code inspects  *)
(* it (isinstance(parsed, list), isinstance(parsed[1], dict),              *)
(* isinstance(color, list)) and otherwise stores values verbatim.          *)
(* A dict is the sequence of its key/value pairs in document order.        *)
(***************************************************************************)
JInt(n) == [t |-> "int", v |-> n]
JBool(b) == [t |-> "bool", v |-> b]
JStr(s) == [t |-> "str", v |-> s]
JNull == [t |-> "null", v |-> 0]
JList(items) == [t |-> "list", v |-> items]
JDict(pairs) == [t |-> "dict", v |-> pairs]
KV(key, value) == [k |-> key, val |-> value]

\* `key in params`
Has(params, key) == \E i \in 1..Len(params.v) : params.v[i].k = key

\* `params[key]`: json.loads keeps the last occurrence of a repeated key
Get(params, key) ==
  LET i == CHOOSE n \in 1..Len(params.v) :
             /\ params.v[n].k = key
             /\ \A m \in (n + 1)..Len(params.v) : params.v[m].k # key
  IN  params.v[i].val

\* an integer of more decimal digits than sys.get_int_max_str_digits() allows
\* to convert to or from text (4300 by default)
BigInt == [t |-> "bigint", v |-> "1000..000 (4301 digits)"]

\* the value is or holds such an integer
RECURSIVE HasBigInt(_)
HasBigInt(j) ==
  CASE j.t = "bigint" -> TRUE
    [] j.t = "list" -> \E i \in 1..Len(j.v) : HasBigInt(j.v[i])
    [] j.t = "dict" -> \E i \in 1..Len(j.v) : HasBigInt(j.v[i].val)
    [] OTHER -> FALSE

\* Python's None, and json.loads raising JSONDecodeError
None == [t |-> "None"]
JSONDecodeError == [t |-> "JSONDecodeError"]

\* the other exceptions of the json module: ValueError from the integer
\* conversion limit, RecursionError from nesting deeper than the recursion limit
ValueError == [t |-> "ValueError"]
RecursionError == [t |-> "RecursionError"]

\* a call that ended with an exception its function did not catch
Raises(exc) == [t |-> "raise", exc |-> exc.t]

(***************************************************************************)
(* Constants of xenopixel_ble/const.py                                     *)
(***************************************************************************)
MSG_TYPE_COMMAND == 2
MSG_TYPE_STATUS == 3
PARAM_POWER_ON == "PowerOn"
PARAM_POWER == "Power"
PARAM_BACKGROUND_COLOR == "BackgroundColor"
PARAM_BRIGHTNESS == "Brightness"
PARAM_HANDSHAKE == "HandShake"
HANDSHAKE_VALUE == "HelloDamien"
PARAM_AUTHORIZE == "Authorize"
AUTHORIZE_VALUE == "SaberOfDamien"
AUTHORIZE_RESPONSE == "AccessAllowed"
PARAM_HARDWARE_VERSION == "HardwareVersion"
PARAM_SOFTWARE_VERSION == "SoftwareVersion"
PARAM_CURRENT_SOUND_PACKAGE == "CurrentSoundPackageNo"
PARAM_TOTAL_SOUND_PACKAGES == "TotalSoundPackage"
PARAM_CURRENT_LIGHT_EFFECT == "CurrentLightEffect"
PARAM_VOLUME == "Volume"
PARAM_LOCKUP == "Lockup"
PARAM_DRAG == "Drag"
PARAM_CURRENT_LOCKUP == "CurrentLockup"
PARAM_TOTAL_LOCKUP == "TotalLockup"
PARAM_CURRENT_DRAG == "CurrentDrag"
PARAM_TOTAL_DRAG == "TotalDrag"
PARAM_CURRENT_BLASTER == "CurrentBlaster"
PARAM_TOTAL_BLASTER == "TotalBlaster"
PARAM_CURRENT_CLASH == "CurrentClash"
PARAM_TOTAL_CLASH == "TotalClash"
PARAM_CURRENT_FORCE == "CurrentForce"
PARAM_TOTAL_FORCE == "TotalForce"
PARAM_TOTAL_LIGHT_EFFECTS == "TotalLightEffect"
PARAM_CURRENT_POST_OFF == "CurrentPostOff"
PARAM_TOTAL_POST_OFF == "TotalPostOff"
PARAM_CURRENT_MODE == "CurrentMode"
PARAM_TOTAL_MODE == "TotalMode"
PARAM_PREON_TIME == "PreonTime"
PARAM_CLASH == "Clash"
PARAM_BLASTER == "Blaster"
PARAM_FORCE == "Force"
LIGHT_EFFECT_MIN == 1
LIGHT_EFFECT_MAX == 9

(***************************************************************************)
(* Text and bytes.  A text is a sequence of chunks; a JSON string          *)
(* contributes the chunks of its characters, so that `needle in text` is   *)
(* a search for a contiguous run of chunks.  Bytes are either the UTF-8    *)
(* encoding of a text or bytes that are not valid UTF-8.                   *)
(***************************************************************************)
\* The strings of the model that hold another one inside them.
Chunks(s) ==
  CASE s = "AccessAllowedNot" -> <<"AccessAllowed", "Not">>
    [] s = "PowerOnCount" -> <<"PowerOn", "Count">>
    [] OTHER -> <<s>>

\* `needle in text`
Contains(text, needle) ==
  \E i \in 1..(Len(text) - Len(needle) + 1) :
     SubSeq(text, i, i + Len(needle) - 1) = needle

\* json.dumps(message, separators=(",", ":"))
RECURSIVE Dumps(_)
Dumps(j) ==
  LET RECURSIVE Items(_, _)
      Items(items, i) ==
        IF i > Len(items) THEN <<>>
        ELSE (IF i > 1 THEN <<",">> ELSE <<>>) \o Dumps(items[i])
               \o Items(items, i + 1)
      RECURSIVE Pairs(_, _)
      Pairs(pairs, i) ==
        IF i > Len(pairs) THEN <<>>
        ELSE (IF i > 1 THEN <<",">> ELSE <<>>)
               \o <<"\"">> \o Chunks(pairs[i].k) \o <<"\"", ":">>
               \o Dumps(pairs[i].val) \o Pairs(pairs, i + 1)
  IN  CASE j.t = "int" -> <<ToString(j.v)>>
        [] j.t = "bigint" -> <<j.v>>
        [] j.t = "bool" -> <<IF j.v THEN "true" ELSE "false">>
        [] j.t = "null" -> <<"null">>
        [] j.t = "str" -> <<"\"">> \o Chunks(j.v) \o <<"\"">>
        [] j.t = "list" -> <<"[">> \o Items(j.v, 1) \o <<"]">>
        [] j.t = "dict" -> <<"{">> \o Pairs(j.v, 1) \o <<"}">>

\* str.encode("utf-8")
Encode(text) == [utf8 |-> TRUE, text |-> text]

\* bytes that are not valid UTF-8 (data.decode raises UnicodeDecodeError)
BadUtf8 == [utf8 |-> FALSE, text |-> <<"ff", "fe">>]

(***************************************************************************)
(* XenopixelProtocol encoders (protocol.py)                                *)
(***************************************************************************)
max(a, b) == IF a >= b THEN a ELSE b
min(a, b) == IF a <= b THEN a ELSE b

\* [MSG_TYPE_COMMAND, {param: value}] dumped and encoded
CommandDoc(param, value) == JList(<<JInt(MSG_TYPE_COMMAND), JDict(<<KV(param, value)>>)>>)

encode_handshake == Encode(Dumps(CommandDoc(PARAM_HANDSHAKE, JStr(HANDSHAKE_VALUE))))

\* the authorize message built with the handshake's key
encode_authorize_wrong_key == Encode(Dumps(CommandDoc(PARAM_HANDSHAKE, JStr(AUTHORIZE_VALUE))))

encode_authorize == Encode(Dumps(CommandDoc(PARAM_AUTHORIZE, JStr(AUTHORIZE_VALUE))))
encode_power_on == Encode(Dumps(CommandDoc(PARAM_POWER_ON, JBool(TRUE))))

\* encode_power_off dumped with json.dumps's default separators (", " and ": ")
encode_power_off_default_separators ==
  Encode(<<"[", "2", ",", " ", "{", "\"", "PowerOn", "\"", ":", " ", "false", "}", "]">>)

encode_power_off == Encode(Dumps(CommandDoc(PARAM_POWER_ON, JBool(FALSE))))
\* encode_color without the three clamping lines
encode_color_unclamped(r, g, b) ==
  Encode(Dumps(CommandDoc(PARAM_BACKGROUND_COLOR, JList(<<JInt(r), JInt(g), JInt(b)>>))))

encode_color(r, g, b) ==
  Encode(Dumps(CommandDoc(PARAM_BACKGROUND_COLOR,
                          JList(<<JInt(max(0, min(255, r))), JInt(max(0, min(255, g))),
                                  JInt(max(0, min(255, b)))>>))))
encode_brightness(brightness) ==
  Encode(Dumps(CommandDoc(PARAM_BRIGHTNESS, JInt(max(0, min(100, brightness))))))
encode_volume(volume) ==
  Encode(Dumps(CommandDoc(PARAM_VOLUME, JInt(max(0, min(100, volume))))))

\* encode_sound_font clamping at 0
encode_sound_font_clamped(font_no) ==
  IF HasBigInt(font_no) THEN Raises(ValueError)
  ELSE Encode(Dumps(CommandDoc(PARAM_CURRENT_SOUND_PACKAGE, JInt(max(0, font_no.v)))))

\* font_no goes to json.dumps as it is: an integer as a JSON value, which
\* json.dumps refuses to convert to text when it is over the digit limit
encode_sound_font(font_no) ==
  IF HasBigInt(font_no) THEN Raises(ValueError)
  ELSE Encode(Dumps(CommandDoc(PARAM_CURRENT_SOUND_PACKAGE, font_no)))

\* encode_light_effect clamping into [0, LIGHT_EFFECT_MAX]
encode_light_effect_from_zero(effect) ==
  Encode(Dumps(CommandDoc(PARAM_CURRENT_LIGHT_EFFECT, JInt(max(0, min(LIGHT_EFFECT_MAX, effect))))))

encode_light_effect(effect) ==
  Encode(Dumps(CommandDoc(PARAM_CURRENT_LIGHT_EFFECT,
                          JInt(max(LIGHT_EFFECT_MIN, min(LIGHT_EFFECT_MAX, effect))))))
encode_clash == Encode(Dumps(CommandDoc(PARAM_CLASH, JBool(TRUE))))
encode_blaster == Encode(Dumps(CommandDoc(PARAM_BLASTER, JBool(TRUE))))
encode_force == Encode(Dumps(CommandDoc(PARAM_FORCE, JBool(TRUE))))
encode_lockup(on) == Encode(Dumps(CommandDoc(PARAM_LOCKUP, JBool(on))))
encode_drag(on) == Encode(Dumps(CommandDoc(PARAM_DRAG, JBool(on))))

(***************************************************************************)
(* The arguments the encoders are called with                              *)
(***************************************************************************)
\* colour channels: below, at and above the ends of [0, 255]
ColorArgs == {-1, 0, 128, 255, 256}

\* how far past the ends of [0, 100] the level arguments go
ArgMargin == 3

\* brightness, volume and light effect arguments
LevelArgs == (0 - ArgMargin)..(100 + ArgMargin)

\* sound font arguments
SoundFontArgs == { JInt(n) : n \in LevelArgs \cup {-2000000000, 2000000000} } \cup {BigInt}

(***************************************************************************)
(* The JSON documents of the model: what a device or a caller may put on   *)
(* the wire.  json.loads is the inverse of json.dumps on them, and raises  *)
(* JSONDecodeError on any other text.                                      *)
(***************************************************************************)
FullStatus ==
  JDict(<<KV(PARAM_HARDWARE_VERSION, JStr("1.0")),
          KV(PARAM_SOFTWARE_VERSION, JStr("3.2.1")),
          KV(PARAM_POWER, JInt(63)),
          KV(PARAM_POWER_ON, JBool(TRUE)),
          KV(PARAM_CURRENT_SOUND_PACKAGE, JInt(1)),
          KV(PARAM_TOTAL_SOUND_PACKAGES, JInt(10)),
          KV(PARAM_CURRENT_LIGHT_EFFECT, JInt(3)),
          KV(PARAM_BACKGROUND_COLOR, JList(<<JInt(255), JInt(153), JInt(18)>>)),
          KV(PARAM_BRIGHTNESS, JInt(80)),
          KV(PARAM_VOLUME, JInt(50))>>)

\* the full status dump of a saber with combat effects, as the saber sent it
FullStatusWithCombat ==
  JDict(<<KV(PARAM_HARDWARE_VERSION, JStr("XENOA04525CW13907")),
          KV(PARAM_SOFTWARE_VERSION, JStr("DMN_XENO_B_SV1.4.0")),
          KV(PARAM_POWER_ON, JBool(FALSE)),
          KV(PARAM_CURRENT_SOUND_PACKAGE, JInt(0)),
          KV(PARAM_TOTAL_SOUND_PACKAGES, JInt(34)),
          KV(PARAM_CURRENT_LIGHT_EFFECT, JInt(0)),
          KV(PARAM_TOTAL_LIGHT_EFFECTS, JInt(8)),
          KV(PARAM_CURRENT_LOCKUP, JInt(0)),
          KV(PARAM_TOTAL_LOCKUP, JInt(1)),
          KV(PARAM_CURRENT_DRAG, JInt(0)),
          KV(PARAM_TOTAL_DRAG, JInt(1)),
          KV(PARAM_CURRENT_BLASTER, JInt(0)),
          KV(PARAM_TOTAL_BLASTER, JInt(3)),
          KV(PARAM_CURRENT_CLASH, JInt(0)),
          KV(PARAM_TOTAL_CLASH, JInt(3)),
          KV(PARAM_CURRENT_FORCE, JInt(0)),
          KV(PARAM_TOTAL_FORCE, JInt(2)),
          KV(PARAM_CURRENT_POST_OFF, JInt(0)),
          KV(PARAM_TOTAL_POST_OFF, JInt(0)),
          KV(PARAM_CURRENT_MODE, JInt(0)),
          KV(PARAM_TOTAL_MODE, JInt(8)),
          KV(PARAM_PREON_TIME, JInt(0)),
          KV(PARAM_POWER, JInt(100)),
          KV(PARAM_VOLUME, JInt(10)),
          KV(PARAM_BACKGROUND_COLOR, JList(<<JInt(255), JInt(230), JInt(103)>>)),
          KV(PARAM_BRIGHTNESS, JInt(100))>>)

\* params whose values are outside the ranges the encoders clamp into
OutOfRangeStatus ==
  JDict(<<KV(PARAM_BRIGHTNESS, JInt(300)), KV(PARAM_VOLUME, JInt(-5)),
          KV(PARAM_CURRENT_LIGHT_EFFECT, JInt(12)),
          KV(PARAM_BACKGROUND_COLOR, JList(<<JInt(256), JInt(-1), JInt(0)>>))>>)

\* params of the status notifications of the model
ParamDicts ==
  { JDict(<<>>),
    JDict(<<KV(PARAM_POWER, JInt(63))>>),
    JDict(<<KV(PARAM_POWER_ON, JBool(TRUE))>>),
    JDict(<<KV(PARAM_POWER_ON, JBool(TRUE)), KV(PARAM_BRIGHTNESS, JInt(50)),
            KV(PARAM_VOLUME, JInt(30))>>),
    JDict(<<KV(PARAM_BACKGROUND_COLOR, JList(<<JInt(255), JInt(0), JInt(0)>>))>>),
    JDict(<<KV(PARAM_BACKGROUND_COLOR, JList(<<JInt(1), JInt(2)>>)),
            KV(PARAM_VOLUME, JInt(30))>>),
    JDict(<<KV(PARAM_BACKGROUND_COLOR, JList(<<>>)), KV(PARAM_POWER, JInt(63))>>),
    JDict(<<KV(PARAM_BACKGROUND_COLOR, JList(<<JInt(7)>>))>>),
    JDict(<<KV("Bogus", JInt(1))>>),
    JDict(<<KV(PARAM_POWER, JInt(63)), KV("Bogus", JInt(1))>>),
    OutOfRangeStatus,
    FullStatus,
    FullStatusWithCombat }

\* params of the commands of the model
CommandDicts ==
  { JDict(<<KV(PARAM_POWER_ON, JBool(TRUE))>>),
    JDict(<<KV(PARAM_BRIGHTNESS, JInt(50))>>) }

\* status notifications, commands, and a message of a kind (7) that is neither
MessageDocs ==
  { JList(<<JInt(MSG_TYPE_STATUS), params>>) : params \in ParamDicts }
    \cup { JList(<<JInt(MSG_TYPE_COMMAND), params>>) : params \in CommandDicts }
    \cup { JList(<<JInt(7), JDict(<<KV(PARAM_POWER_ON, JBool(TRUE))>>)>>) }

\* well-formed JSON that is not a two-element [kind, {params}] array
OtherDocs ==
  { JDict(<<KV(PARAM_POWER, JInt(63))>>),
    JInt(3), JStr("x"), JNull, BigInt,
    JList(<<>>),
    JList(<<JInt(3)>>),
    JList(<<JInt(3), JStr("x")>>),
    JList(<<JInt(0), JDict(<<>>)>>),
    JList(<<JInt(-1), JDict(<<KV(PARAM_POWER_ON, JBool(TRUE))>>)>>),
    JList(<<BigInt, JDict(<<>>)>>),
    JList(<<JBool(TRUE), JDict(<<KV(PARAM_POWER, JInt(63))>>)>>),
    JList(<<JNull, JDict(<<>>)>>),
    JList(<<JDict(<<>>), JDict(<<>>)>>),
    JList(<<JList(<<JInt(1)>>), JDict(<<>>)>>),
    JList(<<JInt(3), JInt(5)>>),
    JList(<<JStr("3"), JDict(<<KV(PARAM_POWER, JInt(63))>>)>>),
    JList(<<JInt(3), JDict(<<KV(PARAM_POWER, JInt(63))>>), JInt(9)>>) }

\* what the saber, or anything else, may notify about authorization and status
AuthorizeDocs ==
  { JList(<<JInt(MSG_TYPE_STATUS), JDict(<<KV(PARAM_AUTHORIZE, JStr(AUTHORIZE_RESPONSE))>>)>>),
    JList(<<JInt(MSG_TYPE_STATUS), JDict(<<KV(PARAM_AUTHORIZE, JStr("AccessAllowedNot"))>>)>>),
    JList(<<JInt(MSG_TYPE_STATUS), JDict(<<KV(PARAM_AUTHORIZE, JStr("AccessDenied"))>>)>>),
    JList(<<JInt(MSG_TYPE_STATUS), JDict(<<KV("Note", JStr(AUTHORIZE_RESPONSE))>>)>>),
    JList(<<JInt(MSG_TYPE_COMMAND), JDict(<<KV(PARAM_AUTHORIZE, JStr(AUTHORIZE_RESPONSE))>>)>>),
    JList(<<JInt(MSG_TYPE_STATUS), JDict(<<KV("PowerOnCount", JInt(4))>>)>>) }

\* the handshake and authorize messages
HandshakeDocs ==
  { CommandDoc(PARAM_HANDSHAKE, JStr(HANDSHAKE_VALUE)),
    CommandDoc(PARAM_AUTHORIZE, JStr(AUTHORIZE_VALUE)) }

\* the colour commands, clamped or not
ColorDocs ==
  { CommandDoc(PARAM_BACKGROUND_COLOR, JList(<<JInt(r), JInt(g), JInt(b)>>)) :
      r, g, b \in ColorArgs }

\* the other commands the encoders build
EncoderDocs ==
  { CommandDoc(PARAM_POWER_ON, JBool(on)) : on \in BOOLEAN }
    \cup { CommandDoc(key, JInt(v)) : key \in {PARAM_BRIGHTNESS, PARAM_VOLUME}, v \in 0..100 }
    \cup { CommandDoc(PARAM_CURRENT_LIGHT_EFFECT, JInt(v)) :
             v \in LIGHT_EFFECT_MIN..LIGHT_EFFECT_MAX }
    \cup { CommandDoc(PARAM_CURRENT_SOUND_PACKAGE, n) : n \in SoundFontArgs }
    \cup { CommandDoc(key, JBool(TRUE)) : key \in {PARAM_CLASH, PARAM_BLASTER, PARAM_FORCE} }
    \cup { CommandDoc(key, JBool(on)) : key \in {PARAM_LOCKUP, PARAM_DRAG}, on \in BOOLEAN }

Docs ==
  MessageDocs \cup OtherDocs \cup AuthorizeDocs \cup HandshakeDocs \cup ColorDocs
    \cup EncoderDocs

\* json.dumps of every document of the model: the document and its text
DumpsOf == { [doc |-> d, text |-> Dumps(d)] : d \in Docs }

\* text that is not JSON
Garbage == <<"[", "3", ",", "{">>

\* text that is not JSON either: more opening brackets than the recursion limit
DeepNest == <<"[[[..[[[ (1100 brackets)">>

\* json.loads(text)
JsonLoads(text) ==
  IF text = DeepNest THEN RecursionError
  ELSE IF \E e \in DumpsOf : e.text = text
  THEN LET d == (CHOOSE e \in DumpsOf : e.text = text).doc
       IN  IF HasBigInt(d) THEN ValueError ELSE d
  ELSE JSONDecodeError

\* the byte strings given to decode_response
Wire ==
  { Encode(Dumps(d)) : d \in MessageDocs \cup OtherDocs }
    \cup {Encode(Garbage), Encode(DeepNest), BadUtf8}

(***************************************************************************)
(* XenopixelProtocol.decode_response                                       *)
(***************************************************************************)
decode_response(data) ==
  IF ~data.utf8 THEN None                       \* except UnicodeDecodeError
  ELSE LET parsed == JsonLoads(data.text)
       IN  IF parsed = JSONDecodeError THEN None \* except json.JSONDecodeError
           ELSE IF parsed \in {ValueError, RecursionError} THEN Raises(parsed)
           ELSE IF parsed.t # "list" \/ Len(parsed.v) < 2 THEN None
           ELSE [t |-> "response",
                 type |-> parsed.v[1],
                 params |-> IF parsed.v[2].t = "dict" THEN parsed.v[2] ELSE JDict(<<>>)]

(***************************************************************************)
(* XenopixelState and XenopixelProtocol.parse_state                        *)
(***************************************************************************)
\* XenopixelState(): the dataclass defaults
XenopixelState ==
  [ is_on |-> JBool(FALSE), power_level |-> JInt(0),
    red |-> JInt(255), green |-> JInt(255), blue |-> JInt(255),
    brightness |-> JInt(100), volume |-> JInt(0),
    sound_font |-> JInt(0), total_sound_fonts |-> JInt(0),
    light_effect |-> JInt(0), total_light_effects |-> JInt(0),
    lockup |-> JBool(FALSE), current_lockup |-> JInt(0), total_lockup |-> JInt(0),
    drag |-> JBool(FALSE), current_drag |-> JInt(0), total_drag |-> JInt(0),
    current_blaster |-> JInt(0), total_blaster |-> JInt(0),
    current_clash |-> JInt(0), total_clash |-> JInt(0),
    current_force |-> JInt(0), total_force |-> JInt(0),
    current_post_off |-> JInt(0), total_post_off |-> JInt(0),
    current_mode |-> JInt(0), total_mode |-> JInt(0),
    preon_time |-> JInt(0),
    hardware_version |-> JStr(""), software_version |-> JStr("") ]

Fields == DOMAIN XenopixelState

\* _PARAM_TO_FIELD, in the order of the dict
PARAM_TO_FIELD ==
  << <<PARAM_POWER_ON, "is_on">>,
     <<PARAM_POWER, "power_level">>,
     <<PARAM_BRIGHTNESS, "brightness">>,
     <<PARAM_VOLUME, "volume">>,
     <<PARAM_CURRENT_SOUND_PACKAGE, "sound_font">>,
     <<PARAM_TOTAL_SOUND_PACKAGES, "total_sound_fonts">>,
     <<PARAM_CURRENT_LIGHT_EFFECT, "light_effect">>,
     <<PARAM_TOTAL_LIGHT_EFFECTS, "total_light_effects">>,
     <<PARAM_LOCKUP, "lockup">>,
     <<PARAM_CURRENT_LOCKUP, "current_lockup">>,
     <<PARAM_TOTAL_LOCKUP, "total_lockup">>,
     <<PARAM_DRAG, "drag">>,
     <<PARAM_CURRENT_DRAG, "current_drag">>,
     <<PARAM_TOTAL_DRAG, "total_drag">>,
     <<PARAM_CURRENT_BLASTER, "current_blaster">>,
     <<PARAM_TOTAL_BLASTER, "total_blaster">>,
     <<PARAM_CURRENT_CLASH, "current_clash">>,
     <<PARAM_TOTAL_CLASH, "total_clash">>,
     <<PARAM_CURRENT_FORCE, "current_force">>,
     <<PARAM_TOTAL_FORCE, "total_force">>,
     <<PARAM_CURRENT_POST_OFF, "current_post_off">>,
     <<PARAM_TOTAL_POST_OFF, "total_post_off">>,
     <<PARAM_CURRENT_MODE, "current_mode">>,
     <<PARAM_TOTAL_MODE, "total_mode">>,
     <<PARAM_PREON_TIME, "preon_time">>,
     <<PARAM_HARDWARE_VERSION, "hardware_version">>,
     <<PARAM_SOFTWARE_VERSION, "software_version">> >>

\* _apply_color(state, color)
apply_color(st, color) ==
  IF color.t = "list" /\ Len(color.v) >= 3
  THEN [st EXCEPT !.red = color.v[1], !.green = color.v[2], !.blue = color.v[3]]
  ELSE st

\* the loop `for param_name, field_name in _PARAM_TO_FIELD.items()` from row i on
RECURSIVE ApplyFields(_, _, _)
ApplyFields(st, params, i) ==
  IF i > Len(PARAM_TO_FIELD) THEN st
  ELSE LET param_name == PARAM_TO_FIELD[i][1]
           field_name == PARAM_TO_FIELD[i][2]
       IN  ApplyFields(IF Has(params, param_name)
                       THEN [st EXCEPT ![field_name] = Get(params, param_name)]
                       ELSE st,
                       params, i + 1)

\* parse_state with a wrong table row: Power lands in brightness
parse_state_wrong_field(resp) ==
  IF resp = None THEN None
  ELSE LET params == resp.params
           simple == ApplyFields(XenopixelState, params, 1)
           moved == IF Has(params, PARAM_POWER)
                    THEN [simple EXCEPT !.brightness = Get(params, PARAM_POWER)]
                    ELSE simple
       IN  IF Has(params, PARAM_BACKGROUND_COLOR)
           THEN apply_color(moved, Get(params, PARAM_BACKGROUND_COLOR))
           ELSE moved

\* parse_state clamping brightness into [0, 100] as encode_brightness does
parse_state_brightness_clamped(resp) ==
  IF resp = None THEN None
  ELSE LET params == resp.params
           simple == ApplyFields(XenopixelState, params, 1)
           clamped == IF simple.brightness.t = "int"
                      THEN [simple EXCEPT !.brightness = JInt(max(0, min(100, simple.brightness.v)))]
                      ELSE simple
       IN  IF Has(params, PARAM_BACKGROUND_COLOR)
           THEN apply_color(clamped, Get(params, PARAM_BACKGROUND_COLOR))
           ELSE clamped

\* parse_state(response): a new XenopixelState filled from response["params"]
parse_state(resp) ==
  IF resp = None THEN None
  ELSE LET params == resp.params
           simple == ApplyFields(XenopixelState, params, 1)
       IN  IF Has(params, PARAM_BACKGROUND_COLOR)
           THEN apply_color(simple, Get(params, PARAM_BACKGROUND_COLOR))
           ELSE simple

(***************************************************************************)
(* The copy of the codec in custom_components/xenopixel/xenopixel_ble,     *)
(* which tests/test_protocol.py imports.  Its decode_response is the same  *)
(* code; its XenopixelState and _PARAM_TO_FIELD are shorter.               *)
(***************************************************************************)
\* XenopixelState(): the dataclass defaults
TestedXenopixelState ==
  [ is_on |-> JBool(FALSE), power_level |-> JInt(0),
    red |-> JInt(255), green |-> JInt(255), blue |-> JInt(255),
    brightness |-> JInt(100), volume |-> JInt(0),
    sound_font |-> JInt(0), total_sound_fonts |-> JInt(0),
    light_effect |-> JInt(0),
    hardware_version |-> JStr(""), software_version |-> JStr("") ]

\* _PARAM_TO_FIELD, in the order of the dict
TESTED_PARAM_TO_FIELD ==
  << <<PARAM_POWER_ON, "is_on">>,
     <<PARAM_POWER, "power_level">>,
     <<PARAM_BRIGHTNESS, "brightness">>,
     <<PARAM_VOLUME, "volume">>,
     <<PARAM_CURRENT_SOUND_PACKAGE, "sound_font">>,
     <<PARAM_TOTAL_SOUND_PACKAGES, "total_sound_fonts">>,
     <<PARAM_CURRENT_LIGHT_EFFECT, "light_effect">>,
     <<PARAM_HARDWARE_VERSION, "hardware_version">>,
     <<PARAM_SOFTWARE_VERSION, "software_version">> >>

\* the loop `for param_name, field_name in _PARAM_TO_FIELD.items()` from row i on
RECURSIVE TestedApplyFields(_, _, _)
TestedApplyFields(st, params, i) ==
  IF i > Len(TESTED_PARAM_TO_FIELD) THEN st
  ELSE LET param_name == TESTED_PARAM_TO_FIELD[i][1]
           field_name == TESTED_PARAM_TO_FIELD[i][2]
       IN  TestedApplyFields(IF Has(params, param_name)
                             THEN [st EXCEPT ![field_name] = Get(params, param_name)]
                             ELSE st,
                             params, i + 1)

\* parse_state(response)
tested_parse_state(resp) ==
  IF resp = None THEN None
  ELSE LET params == resp.params
           simple == TestedApplyFields(TestedXenopixelState, params, 1)
       IN  IF Has(params, PARAM_BACKGROUND_COLOR)
           THEN apply_color(simple, Get(params, PARAM_BACKGROUND_COLOR))
           ELSE simple

(***************************************************************************)
(* The codec applied to wire bytes: decode_response on any bytes of the    *)
(* model, parse_state on what it returned.  `state` is the device state:   *)
(* the value of the last `state = parse_state(response)`, a freshly        *)
(* constructed XenopixelState before the first.                            *)
(***************************************************************************)
VARIABLES
  data,         \* the bytes last given to decode_response
  response,     \* what decode_response returned for them
  state,        \* the device state
  lastParsed,   \* the response of the last parse_state call
  prevState,    \* the device state before that call
  prevParsed,   \* the response of the parse_state call before it
  call,         \* the last encoder call: the class's module, the method, the arguments
  packet        \* what that call returned, or what it raised

codecVars == <<data, response, state, lastParsed, prevState, prevParsed, call, packet>>

\* the state of a run of test_saber.py (below)
VARIABLES
  fn,               \* the function run
  command,          \* send_command's command (a text)
  use_alt,          \* send_command's use_alt
  pc,               \* the statement the function is at
  connected,        \* client.is_connected
  notifying,        \* characteristics with start_notify called and stop_notify not
  authorized,       \* the asyncio.Event authorized
  status_received,  \* the asyncio.Event status_received
  timed_out,        \* wait_for raised TimeoutError
  writes,           \* the write_gatt_char calls that returned or raised, in order
  inflight,         \* the write_gatt_char calls awaited and not yet returned
  error,            \* the exception that ended the run, "none" if none
  notification,     \* the last notification a handler was called with
  delivered         \* how many notifications handlers were called with

sessionVars == <<fn, command, use_alt, pc, connected, notifying, authorized,
                 status_received, timed_out, writes, inflight, error, notification,
                 delivered>>

\* the state of a run of tools/parse_btsnoop.py (further below)
VARIABLES
  file,         \* f: the bytes of the file at filepath, and the position read up to
  file_header,  \* result: what _read_file_header returned
  packet_num,   \* records read
  att_writes,   \* the ATT writes found, in order
  stdout,       \* what was printed
  raised,       \* the exception that ended the run, "none" if none
  line          \* the statement parse_btsnoop is at

snoopVars == <<file, file_header, packet_num, att_writes, stdout, raised, line>>

vars == <<codecVars, sessionVars, snoopVars>>

\* no call yet
NoCall == [t |-> "NoCall"]

CodecInit ==
  /\ data = NoCall
  /\ response = NoCall
  /\ state = XenopixelState
  /\ lastParsed = NoCall
  /\ prevState = NoCall
  /\ prevParsed = NoCall
  /\ call = NoCall
  /\ packet = NoCall

\* response = XenopixelProtocol.decode_response(data)
DecodeResponse(d) ==
  /\ data' = d
  /\ response' = decode_response(d)
  /\ UNCHANGED <<state, lastParsed, prevState, prevParsed, call, packet>>
  /\ UNCHANGED sessionVars
  /\ UNCHANGED snoopVars

\* state = XenopixelProtocol.parse_state(response)
ParseState ==
  /\ response # NoCall
  /\ response.t # "raise"
  /\ state' = parse_state(response)
  /\ lastParsed' = response
  /\ prevState' = state
  /\ prevParsed' = lastParsed
  /\ UNCHANGED <<data, response, call, packet>>
  /\ UNCHANGED sessionVars
  /\ UNCHANGED snoopVars

CodecNext ==
  \/ \E d \in Wire : DecodeResponse(d)
  \/ ParseState

\* the same calls on the copy tests/test_protocol.py imports
TestedCodecInit ==
  /\ data = NoCall
  /\ response = NoCall
  /\ state = TestedXenopixelState
  /\ lastParsed = NoCall
  /\ prevState = NoCall
  /\ prevParsed = NoCall
  /\ call = NoCall
  /\ packet = NoCall

\* response = XenopixelProtocol.decode_response(data)
TestedDecodeResponse(d) ==
  /\ data' = d
  /\ response' = decode_response(d)
  /\ UNCHANGED <<state, lastParsed, prevState, prevParsed, call, packet>>
  /\ UNCHANGED sessionVars
  /\ UNCHANGED snoopVars

\* state = XenopixelProtocol.parse_state(response)
TestedParseState ==
  /\ response # NoCall
  /\ response.t # "raise"
  /\ state' = tested_parse_state(response)
  /\ lastParsed' = response
  /\ prevState' = state
  /\ prevParsed' = lastParsed
  /\ UNCHANGED <<data, response, call, packet>>
  /\ UNCHANGED sessionVars
  /\ UNCHANGED snoopVars

TestedCodecNext ==
  \/ \E d \in Wire : TestedDecodeResponse(d)
  \/ TestedParseState

(***************************************************************************)
(* Calls of the encoders.  The repository holds two copies of the class    *)
(* XenopixelProtocol: src/xenopixel_ble/protocol.py and                    *)
(* custom_components/xenopixel/xenopixel_ble/protocol.py, the one          *)
(* tests/test_protocol.py imports.  The second has no combat encoders.     *)
(***************************************************************************)
SrcModule == "xenopixel_ble.protocol"
TestedModule == "custom_components.xenopixel.xenopixel_ble.protocol"
Modules == {SrcModule, TestedModule}

CombatMethods ==
  {"encode_clash", "encode_blaster", "encode_force", "encode_lockup", "encode_drag"}

\* the encoders XenopixelProtocol defines in each module
Methods(module) ==
  { "encode_handshake", "encode_authorize", "encode_power_on", "encode_power_off",
    "encode_color", "encode_brightness", "encode_volume", "encode_sound_font",
    "encode_light_effect" }
    \cup (IF module = SrcModule THEN CombatMethods ELSE {})

\* XenopixelProtocol.<name> looked up on a class without it
AttributeError == [t |-> "AttributeError"]

\* the call XenopixelProtocol.<name>(*args) on the class of the module
Call(module, name, args) == [module |-> module, fn |-> name, args |-> args]

\* what it gives: the method's result, or AttributeError if the class has no
\* such method
Result(module, name, result) ==
  IF name \in Methods(module) THEN result ELSE Raises(AttributeError)

\* packet = XenopixelProtocol.encode_handshake(...)
EncodeHandshake ==
  \E m \in Modules :
     /\ call' = Call(m, "encode_handshake", <<>>)
     /\ packet' = Result(m, "encode_handshake", encode_handshake)
     /\ UNCHANGED <<data, response, state, lastParsed, prevState, prevParsed>>
     /\ UNCHANGED sessionVars
     /\ UNCHANGED snoopVars

\* packet = XenopixelProtocol.encode_authorize(...)
EncodeAuthorize ==
  \E m \in Modules :
     /\ call' = Call(m, "encode_authorize", <<>>)
     /\ packet' = Result(m, "encode_authorize", encode_authorize)
     /\ UNCHANGED <<data, response, state, lastParsed, prevState, prevParsed>>
     /\ UNCHANGED sessionVars
     /\ UNCHANGED snoopVars

\* packet = XenopixelProtocol.encode_power_on(...)
EncodePowerOn ==
  \E m \in Modules :
     /\ call' = Call(m, "encode_power_on", <<>>)
     /\ packet' = Result(m, "encode_power_on", encode_power_on)
     /\ UNCHANGED <<data, response, state, lastParsed, prevState, prevParsed>>
     /\ UNCHANGED sessionVars
     /\ UNCHANGED snoopVars

\* packet = XenopixelProtocol.encode_power_off(...)
EncodePowerOff ==
  \E m \in Modules :
     /\ call' = Call(m, "encode_power_off", <<>>)
     /\ packet' = Result(m, "encode_power_off", encode_power_off)
     /\ UNCHANGED <<data, response, state, lastParsed, prevState, prevParsed>>
     /\ UNCHANGED sessionVars
     /\ UNCHANGED snoopVars

\* packet = XenopixelProtocol.encode_color(...)
EncodeColor ==
  \E m \in Modules, r, g, b \in ColorArgs :
     /\ call' = Call(m, "encode_color", <<r, g, b>>)
     /\ packet' = Result(m, "encode_color", encode_color(r, g, b))
     /\ UNCHANGED <<data, response, state, lastParsed, prevState, prevParsed>>
     /\ UNCHANGED sessionVars
     /\ UNCHANGED snoopVars

\* packet = XenopixelProtocol.encode_brightness(...)
EncodeBrightness ==
  \E m \in Modules, v \in LevelArgs :
     /\ call' = Call(m, "encode_brightness", <<v>>)
     /\ packet' = Result(m, "encode_brightness", encode_brightness(v))
     /\ UNCHANGED <<data, response, state, lastParsed, prevState, prevParsed>>
     /\ UNCHANGED sessionVars
     /\ UNCHANGED snoopVars

\* packet = XenopixelProtocol.encode_volume(...)
EncodeVolume ==
  \E m \in Modules, v \in LevelArgs :
     /\ call' = Call(m, "encode_volume", <<v>>)
     /\ packet' = Result(m, "encode_volume", encode_volume(v))
     /\ UNCHANGED <<data, response, state, lastParsed, prevState, prevParsed>>
     /\ UNCHANGED sessionVars
     /\ UNCHANGED snoopVars

\* packet = XenopixelProtocol.encode_sound_font(...)
EncodeSoundFont ==
  \E m \in Modules, n \in SoundFontArgs :
     /\ call' = Call(m, "encode_sound_font", <<n>>)
     /\ packet' = Result(m, "encode_sound_font", encode_sound_font(n))
     /\ UNCHANGED <<data, response, state, lastParsed, prevState, prevParsed>>
     /\ UNCHANGED sessionVars
     /\ UNCHANGED snoopVars

\* packet = XenopixelProtocol.encode_light_effect(...)
EncodeLightEffect ==
  \E m \in Modules, v \in LevelArgs :
     /\ call' = Call(m, "encode_light_effect", <<v>>)
     /\ packet' = Result(m, "encode_light_effect", encode_light_effect(v))
     /\ UNCHANGED <<data, response, state, lastParsed, prevState, prevParsed>>
     /\ UNCHANGED sessionVars
     /\ UNCHANGED snoopVars

\* packet = XenopixelProtocol.encode_clash(...)
EncodeClash ==
  \E m \in Modules :
     /\ call' = Call(m, "encode_clash", <<>>)
     /\ packet' = Result(m, "encode_clash", encode_clash)
     /\ UNCHANGED <<data, response, state, lastParsed, prevState, prevParsed>>
     /\ UNCHANGED sessionVars
     /\ UNCHANGED snoopVars

\* packet = XenopixelProtocol.encode_blaster(...)
EncodeBlaster ==
  \E m \in Modules :
     /\ call' = Call(m, "encode_blaster", <<>>)
     /\ packet' = Result(m, "encode_blaster", encode_blaster)
     /\ UNCHANGED <<data, response, state, lastParsed, prevState, prevParsed>>
     /\ UNCHANGED sessionVars
     /\ UNCHANGED snoopVars

\* packet = XenopixelProtocol.encode_force(...)
EncodeForce ==
  \E m \in Modules :
     /\ call' = Call(m, "encode_force", <<>>)
     /\ packet' = Result(m, "encode_force", encode_force)
     /\ UNCHANGED <<data, response, state, lastParsed, prevState, prevParsed>>
     /\ UNCHANGED sessionVars
     /\ UNCHANGED snoopVars

\* packet = XenopixelProtocol.encode_lockup(...)
EncodeLockup ==
  \E m \in Modules, on \in BOOLEAN :
     /\ call' = Call(m, "encode_lockup", <<on>>)
     /\ packet' = Result(m, "encode_lockup", encode_lockup(on))
     /\ UNCHANGED <<data, response, state, lastParsed, prevState, prevParsed>>
     /\ UNCHANGED sessionVars
     /\ UNCHANGED snoopVars

\* packet = XenopixelProtocol.encode_drag(...)
EncodeDrag ==
  \E m \in Modules, on \in BOOLEAN :
     /\ call' = Call(m, "encode_drag", <<on>>)
     /\ packet' = Result(m, "encode_drag", encode_drag(on))
     /\ UNCHANGED <<data, response, state, lastParsed, prevState, prevParsed>>
     /\ UNCHANGED sessionVars
     /\ UNCHANGED snoopVars

EncodeNext ==
  \/ EncodeHandshake
  \/ EncodeAuthorize
  \/ EncodePowerOn
  \/ EncodePowerOff
  \/ EncodeColor
  \/ EncodeBrightness
  \/ EncodeVolume
  \/ EncodeSoundFont
  \/ EncodeLightEffect
  \/ EncodeClash
  \/ EncodeBlaster
  \/ EncodeForce
  \/ EncodeLockup
  \/ EncodeDrag

(***************************************************************************)
(* tools/test_saber.py: one run of send_command, send_blind_command or     *)
(* connect_and_read against the saber.  The GATT client (bleak) is the     *)
(* environment: each of its calls returns or raises, the link may drop,    *)
(* and the saber notifies whenever it likes on a subscribed                *)
(* characteristic.                                                         *)
(***************************************************************************)
CHAR_CONTROL_UUID == "0000dae1-0000-1000-8000-00805f9b34fb"        \* PRIMARY
CHAR_CONTROL_ALT_UUID == "00003ab1-0000-1000-8000-00805f9b34fb"    \* ALT

\* notifications delivered in one run
MaxNotifications == 2

Functions == {"send_command", "send_blind_command", "connect_and_read"}

\* the commands given to send_command: power on (the `power on` subcommand)
\* and, through `raw` and `alt`, the handshake and authorize messages
Commands ==
  { Dumps(CommandDoc(PARAM_POWER_ON, JBool(TRUE))),
    Dumps(CommandDoc(PARAM_HANDSHAKE, JStr(HANDSHAKE_VALUE))),
    Dumps(CommandDoc(PARAM_AUTHORIZE, JStr(AUTHORIZE_VALUE))) }

\* what the saber (or anything on the link) may notify
Notifications ==
  { Encode(Dumps(d)) : d \in AuthorizeDocs }
    \cup { Encode(Dumps(JList(<<JInt(MSG_TYPE_STATUS), params>>))) :
             params \in { JDict(<<KV(PARAM_POWER, JInt(63))>>),
                          JDict(<<KV(PARAM_POWER_ON, JBool(TRUE))>>),
                          FullStatus } }
    \cup { Encode(<<"AccessAllowed">>), BadUtf8 }

SessionInit ==
  /\ fn \in Functions
  /\ command \in (IF fn = "send_command" THEN Commands
                  ELSE {Dumps(CommandDoc(PARAM_POWER_ON, JBool(TRUE)))})
  /\ use_alt \in (IF fn = "send_command" THEN BOOLEAN ELSE {TRUE})
  /\ pc = "connect"
  /\ connected = FALSE
  /\ notifying = {}
  /\ authorized = FALSE
  /\ status_received = FALSE
  /\ timed_out = FALSE
  /\ writes = <<>>
  /\ inflight = <<>>
  /\ error = "none"
  /\ notification = NoCall
  /\ delivered = 0

\* an exception leaves `async with BleakClient(...)`: __aexit__ disconnects and
\* the exception ends the run; the statements after the raising one are skipped
Raise(reason) ==
  /\ pc' = "done"
  /\ connected' = FALSE
  /\ error' = reason

\* async with BleakClient(KNOWN_MAC) as client:
Connect ==
  /\ pc = "connect"
  /\ \/ /\ connected' = TRUE
        /\ pc' = IF fn = "send_blind_command" THEN "write1" ELSE "start_primary"
        /\ UNCHANGED error
     \/ Raise("connect")
  /\ UNCHANGED <<fn, command, use_alt, notifying, authorized, status_received,
                 timed_out, writes, inflight, notification, delivered>>
  /\ UNCHANGED codecVars
  /\ UNCHANGED snoopVars

\* await client.start_notify(CHAR_CONTROL_UUID, ...), then ..._ALT_UUID
StartNotify ==
  /\ pc \in {"start_primary", "start_alt"}
  /\ LET char == IF pc = "start_primary" THEN CHAR_CONTROL_UUID ELSE CHAR_CONTROL_ALT_UUID
     IN  \/ /\ connected
            /\ notifying' = notifying \cup {char}
            /\ pc' = IF pc = "start_primary" THEN "start_alt"
                     ELSE IF fn = "send_command" THEN "wait" ELSE "read_primary"
            /\ UNCHANGED <<connected, error>>
         \/ /\ Raise("start_notify")
            /\ UNCHANGED notifying
  /\ UNCHANGED <<fn, command, use_alt, authorized, status_received, timed_out,
                 writes, inflight, notification, delivered>>
  /\ UNCHANGED codecVars
  /\ UNCHANGED snoopVars

\* a handler called with `data` on a characteristic, with what the run knew
\* when it was called
Notification(char, bytes) ==
  [char |-> char, data |-> bytes, authorized |-> authorized]

\* the handlers, the one of the alternate characteristic raising when
\* AccessAllowed comes with `authorized` already set
Notify_redundant_raises(char, bytes) ==
  /\ pc \notin {"connect", "done"}
  /\ connected
  /\ char \in notifying
  /\ delivered < MaxNotifications
  /\ notification' = Notification(char, bytes)
  /\ delivered' = delivered + 1
  /\ authorized' =
       IF /\ fn = "send_command" /\ char = CHAR_CONTROL_ALT_UUID
          /\ bytes.utf8 /\ Contains(bytes.text, <<"AccessAllowed">>)
       THEN TRUE ELSE authorized
  /\ status_received' =
       IF /\ fn = "send_command" /\ char = CHAR_CONTROL_UUID
          /\ bytes.utf8
          /\ \/ Contains(bytes.text, <<"HardwareVersion">>)
             \/ Contains(bytes.text, <<"PowerOn">>)
       THEN TRUE ELSE status_received
  /\ IF /\ fn = "send_command" /\ char = CHAR_CONTROL_ALT_UUID /\ authorized
        /\ bytes.utf8 /\ Contains(bytes.text, <<"AccessAllowed">>)
     THEN Raise("authorize")
     ELSE UNCHANGED <<pc, connected, error>>
  /\ UNCHANGED <<fn, command, use_alt, notifying, timed_out, writes, inflight>>
  /\ UNCHANGED codecVars
  /\ UNCHANGED snoopVars

\* alt_notification_handler / primary_notification_handler of send_command,
\* notification_handler of connect_and_read
Notify(char, bytes) ==
  /\ pc \notin {"connect", "done"}
  /\ connected
  /\ char \in notifying
  /\ delivered < MaxNotifications
  /\ notification' = Notification(char, bytes)
  /\ delivered' = delivered + 1
  /\ authorized' =
       IF /\ fn = "send_command" /\ char = CHAR_CONTROL_ALT_UUID
          /\ bytes.utf8 /\ Contains(bytes.text, <<"AccessAllowed">>)
       THEN TRUE ELSE authorized
  /\ status_received' =
       IF /\ fn = "send_command" /\ char = CHAR_CONTROL_UUID
          /\ bytes.utf8
          /\ \/ Contains(bytes.text, <<"HardwareVersion">>)
             \/ Contains(bytes.text, <<"PowerOn">>)
       THEN TRUE ELSE status_received
  /\ UNCHANGED <<fn, command, use_alt, pc, connected, notifying, timed_out, writes, inflight, error>>
  /\ UNCHANGED codecVars
  /\ UNCHANGED snoopVars

\* asyncio.wait_for(asyncio.gather(status_received.wait(), authorized.wait()), 10.0)
\* returns: "Device ready!"
WaitReady ==
  /\ pc = "wait"
  /\ status_received /\ authorized
  /\ pc' = "write"
  /\ UNCHANGED <<fn, command, use_alt, connected, notifying, authorized, status_received,
                 timed_out, writes, inflight, error, notification, delivered>>
  /\ UNCHANGED codecVars
  /\ UNCHANGED snoopVars

\* ... or raises TimeoutError: "Timeout waiting for device - proceeding anyway"
WaitTimeout ==
  /\ pc = "wait"
  /\ ~(status_received /\ authorized)
  /\ timed_out' = TRUE
  /\ pc' = "write"
  /\ UNCHANGED <<fn, command, use_alt, connected, notifying, authorized, status_received,
                 writes, inflight, error, notification, delivered>>
  /\ UNCHANGED codecVars
  /\ UNCHANGED snoopVars

\* a write_gatt_char(char, data, response=resp) call being awaited, with what
\* the run knew when it made the call
PendingWrite(char, bytes, resp) ==
  [ char |-> char, data |-> bytes, response |-> resp,
    authorized |-> authorized, timed_out |-> timed_out ]

\* the call as the log keeps it once it has returned (ok) or raised
WriteCall(w, ok) ==
  [ char |-> w.char, data |-> w.data, response |-> w.response, ok |-> ok,
    authorized |-> w.authorized, timed_out |-> w.timed_out ]

\* the call with response=True whatever the characteristic
WriteCommand_response_true ==
  /\ pc = "write"
  /\ LET char == IF use_alt THEN CHAR_CONTROL_ALT_UUID ELSE CHAR_CONTROL_UUID
         bytes == Encode(command)
     IN  inflight' = Append(inflight, PendingWrite(char, bytes, TRUE))
  /\ pc' = "writing"
  /\ UNCHANGED <<fn, command, use_alt, connected, notifying, authorized, status_received,
                 timed_out, writes, error, notification, delivered>>
  /\ UNCHANGED codecVars
  /\ UNCHANGED snoopVars

\* await client.write_gatt_char(char_uuid, data, response=not use_alt): the call
WriteCommand ==
  /\ pc = "write"
  /\ LET char == IF use_alt THEN CHAR_CONTROL_ALT_UUID ELSE CHAR_CONTROL_UUID
         bytes == Encode(command)
     IN  inflight' = Append(inflight, PendingWrite(char, bytes, ~use_alt))
  /\ pc' = "writing"
  /\ UNCHANGED <<fn, command, use_alt, connected, notifying, authorized, status_received,
                 timed_out, writes, error, notification, delivered>>
  /\ UNCHANGED codecVars
  /\ UNCHANGED snoopVars

\* ... and its return, or the exception it raises
WriteReturn ==
  /\ pc = "writing"
  /\ inflight' = Tail(inflight)
  /\ \/ /\ connected
        /\ writes' = Append(writes, WriteCall(Head(inflight), TRUE))
        /\ pc' = "sleep"
        /\ UNCHANGED <<connected, error>>
     \/ /\ writes' = Append(writes, WriteCall(Head(inflight), FALSE))
        /\ Raise("write")
  /\ UNCHANGED <<fn, command, use_alt, notifying, authorized, status_received,
                 timed_out, notification, delivered>>
  /\ UNCHANGED codecVars
  /\ UNCHANGED snoopVars

\* await asyncio.sleep(...) before the stop_notify calls
Sleep ==
  /\ pc = "sleep"
  /\ pc' = "stop_primary"
  /\ UNCHANGED <<fn, command, use_alt, connected, notifying, authorized, status_received,
                 timed_out, writes, inflight, error, notification, delivered>>
  /\ UNCHANGED codecVars
  /\ UNCHANGED snoopVars

\* await client.stop_notify(CHAR_CONTROL_UUID), then ..._ALT_UUID
StopNotify ==
  /\ pc \in {"stop_primary", "stop_alt"}
  /\ LET char == IF pc = "stop_primary" THEN CHAR_CONTROL_UUID ELSE CHAR_CONTROL_ALT_UUID
     IN  \/ /\ connected
            /\ notifying' = notifying \ {char}
            /\ pc' = IF pc = "stop_primary" THEN "stop_alt" ELSE "exit"
            /\ UNCHANGED <<connected, error>>
         \/ /\ Raise("stop_notify")
            /\ UNCHANGED notifying
  /\ UNCHANGED <<fn, command, use_alt, authorized, status_received, timed_out,
                 writes, inflight, notification, delivered>>
  /\ UNCHANGED codecVars
  /\ UNCHANGED snoopVars

\* the end of the `async with` block: __aexit__ disconnects
Exit ==
  /\ pc = "exit"
  /\ pc' = "done"
  /\ connected' = FALSE
  /\ UNCHANGED <<fn, command, use_alt, notifying, authorized, status_received,
                 timed_out, writes, inflight, error, notification, delivered>>
  /\ UNCHANGED codecVars
  /\ UNCHANGED snoopVars

\* connect_and_read: value = await client.read_gatt_char(...), PRIMARY then ALT
ReadChar ==
  /\ pc \in {"read_primary", "read_alt"}
  /\ \/ /\ connected
        /\ pc' = IF pc = "read_primary" THEN "read_alt" ELSE "sleep"
        /\ UNCHANGED <<connected, error>>
     \/ Raise("read")
  /\ UNCHANGED <<fn, command, use_alt, notifying, authorized, status_received,
                 timed_out, writes, inflight, notification, delivered>>
  /\ UNCHANGED codecVars
  /\ UNCHANGED snoopVars

\* the three writes called without awaiting the one before
BlindWrite_not_awaited ==
  /\ pc \in {"write1", "write2", "write3"}
  /\ LET bytes == CASE pc = "write1" -> encode_power_on
                    [] pc = "write2" -> encode_power_off
                    [] pc = "write3" -> encode_color(255, 0, 0)
     IN  inflight' = Append(inflight, PendingWrite(CHAR_CONTROL_ALT_UUID, bytes, FALSE))
  /\ pc' = CASE pc = "write1" -> "write2"
             [] pc = "write2" -> "write3"
             [] pc = "write3" -> "writing3"
  /\ UNCHANGED <<fn, command, use_alt, connected, notifying, authorized, status_received,
                 timed_out, writes, error, notification, delivered>>
  /\ UNCHANGED codecVars
  /\ UNCHANGED snoopVars

\* send_blind_command: the three writes, each awaited in try/except Exception
\* and followed by a sleep: the call
BlindWrite ==
  /\ pc \in {"write1", "write2", "write3"}
  /\ LET bytes == CASE pc = "write1" -> encode_power_on
                    [] pc = "write2" -> encode_power_off
                    [] pc = "write3" -> encode_color(255, 0, 0)
     IN  inflight' = Append(inflight, PendingWrite(CHAR_CONTROL_ALT_UUID, bytes, FALSE))
  /\ pc' = CASE pc = "write1" -> "writing1"
             [] pc = "write2" -> "writing2"
             [] pc = "write3" -> "writing3"
  /\ UNCHANGED <<fn, command, use_alt, connected, notifying, authorized, status_received,
                 timed_out, writes, error, notification, delivered>>
  /\ UNCHANGED codecVars
  /\ UNCHANGED snoopVars

\* ... and its return, or the exception it raises, which is printed; either
\* way the next write follows
BlindWriteReturn ==
  /\ pc \in {"writing1", "writing2", "writing3"}
  /\ inflight' = Tail(inflight)
  /\ \/ /\ connected
        /\ writes' = Append(writes, WriteCall(Head(inflight), TRUE))
     \/ writes' = Append(writes, WriteCall(Head(inflight), FALSE))
  /\ pc' = CASE pc = "writing1" -> "write2"
             [] pc = "writing2" -> "write3"
             [] pc = "writing3" -> "exit"
  /\ UNCHANGED <<fn, command, use_alt, connected, notifying, authorized, status_received,
                 timed_out, error, notification, delivered>>
  /\ UNCHANGED codecVars
  /\ UNCHANGED snoopVars

\* the link drops: client.is_connected becomes false and every later GATT call raises
TransportDisconnect ==
  /\ pc \notin {"connect", "done"}
  /\ connected
  /\ connected' = FALSE
  /\ UNCHANGED <<fn, command, use_alt, pc, notifying, authorized, status_received,
                 timed_out, writes, inflight, error, notification, delivered>>
  /\ UNCHANGED codecVars
  /\ UNCHANGED snoopVars

SessionNext ==
  \/ Connect
  \/ StartNotify
  \/ \E char \in {CHAR_CONTROL_UUID, CHAR_CONTROL_ALT_UUID}, bytes \in Notifications :
        Notify(char, bytes)
  \/ WaitReady
  \/ WaitTimeout
  \/ WriteCommand
  \/ WriteReturn
  \/ Sleep
  \/ StopNotify
  \/ Exit
  \/ ReadChar
  \/ BlindWrite
  \/ BlindWriteReturn
  \/ TransportDisconnect

\* parse_btsnoop not running
SnoopIdle ==
  /\ file = NoCall
  /\ file_header = NoCall
  /\ packet_num = 0
  /\ att_writes = <<>>
  /\ stdout = <<>>
  /\ raised = "none"
  /\ line = "return"

\* the session of test_saber.py; the tool keeps no device state
Init == CodecInit /\ SessionInit /\ SnoopIdle
Next == SessionNext
Spec == Init /\ [][Next]_vars

\* the codec alone, no session running
SessionIdle ==
  /\ fn = "send_command"
  /\ command = Dumps(CommandDoc(PARAM_POWER_ON, JBool(TRUE)))
  /\ use_alt = TRUE
  /\ pc = "done"
  /\ connected = FALSE
  /\ notifying = {}
  /\ authorized = FALSE
  /\ status_received = FALSE
  /\ timed_out = FALSE
  /\ writes = <<>>
  /\ inflight = <<>>
  /\ error = "none"
  /\ notification = NoCall
  /\ delivered = 0

InitCodec == CodecInit /\ SessionIdle /\ SnoopIdle
SpecCodec == InitCodec /\ [][CodecNext]_vars

\* the codec tests/test_protocol.py imports, alone
InitTestedCodec == TestedCodecInit /\ SessionIdle /\ SnoopIdle
SpecTestedCodec == InitTestedCodec /\ [][TestedCodecNext]_vars

\* the encoders alone
SpecEncode == InitCodec /\ [][EncodeNext]_vars

(***************************************************************************)
(* tools/parse_btsnoop.py: one run of parse_btsnoop on a file.  Bytes are  *)
(* sequences of numbers 0..255.  The lengths in the files of the model     *)
(* are small, so a 32-bit field never has a byte over 127 in front.        *)
(***************************************************************************)
\* b[i:j] and b[i:] of Python, i and j not negative
Slice(b, i, j) == IF i >= min(j, Len(b)) THEN <<>> ELSE SubSeq(b, i + 1, min(j, Len(b)))
From(b, i) == Slice(b, i, Len(b))

\* f.read(n), and f after it
Read(f, n) == Slice(f.data, f.pos, f.pos + n)
Advance(f, n) == [f EXCEPT !.pos = min(Len(f.data), f.pos + n)]

\* struct.pack(">I", n), struct.pack("<H", n)
Pack32BE(n) == <<(n \div 16777216) % 256, (n \div 65536) % 256, (n \div 256) % 256, n % 256>>
Pack16LE(n) == <<n % 256, (n \div 256) % 256>>

\* struct.error: unpack given a buffer of the wrong size
StructError == [t |-> "struct.error"]

\* struct.unpack(">I", b)[0], struct.unpack("<H", b)[0]
U32BE(b) ==
  IF Len(b) # 4 THEN StructError
  ELSE [t |-> "int", v |-> ((b[1] * 256 + b[2]) * 256 + b[3]) * 256 + b[4]]
U16LE(b) == b[1] + 256 * b[2]

\* a value returned where None may be returned instead
Some(x) == [t |-> "some", v |-> x]

\* b"btsnoop\x00"
Magic == <<98, 116, 115, 110, 111, 111, 112, 0>>

\* _read_file_header, given what f.read(16) returned
read_file_header(header) ==
  IF Slice(header, 0, 8) # Magic THEN None
  ELSE LET version == U32BE(Slice(header, 8, 12))
           datalink == U32BE(Slice(header, 12, 16))
       IN  IF version = StructError THEN Raises(StructError)
           ELSE IF datalink = StructError THEN Raises(StructError)
           ELSE [t |-> "header", version |-> version.v, datalink |-> datalink.v]

\* _read_record accepting a packet shorter than incl_len
read_record_short_packet(f) ==
  LET record_header == Read(f, 24)
      f1 == Advance(f, 24)
  IN  IF Len(record_header) < 24 THEN [record |-> None, f |-> f1]
      ELSE LET incl_len == U32BE(Slice(record_header, 4, 8)).v
               flags == U32BE(Slice(record_header, 8, 12)).v
           IN  [ record |-> [incl_len |-> incl_len, flags |-> flags,
                             packet |-> Read(f1, incl_len)],
                 f |-> Advance(f1, incl_len) ]

\* _read_record(f): the record, or None, and f after the reads
read_record(f) ==
  LET record_header == Read(f, 24)
      f1 == Advance(f, 24)
  IN  IF Len(record_header) < 24 THEN [record |-> None, f |-> f1]
      ELSE LET incl_len == U32BE(Slice(record_header, 4, 8)).v
               flags == U32BE(Slice(record_header, 8, 12)).v
               pkt == Read(f1, incl_len)
               f2 == Advance(f1, incl_len)
           IN  IF Len(pkt) < incl_len THEN [record |-> None, f |-> f2]
               ELSE [ record |-> [incl_len |-> incl_len, flags |-> flags, packet |-> pkt],
                      f |-> f2 ]

\* _extract_acl_data(datalink, packet)
extract_acl_data(datalink, pkt) ==
  LET monitor == datalink = 1002 /\ Len(pkt) > 0
      hci_type == IF monitor THEN pkt[1] ELSE 2
      hci_data == IF monitor THEN From(pkt, 1) ELSE pkt
  IN  IF hci_type = 2 THEN Some(hci_data) ELSE None

\* _extract_att_payload(hci_data)
extract_att_payload(hci_data) ==
  IF Len(hci_data) < 4 THEN None
  ELSE LET acl_data == From(hci_data, 4)
       IN  IF Len(acl_data) < 4 THEN None
           ELSE LET l2cap_cid == U16LE(Slice(acl_data, 2, 4))
                    l2cap_data == From(acl_data, 4)
                IN  IF l2cap_cid # 4 \/ Len(l2cap_data) < 1 THEN None
                    ELSE Some([att_opcode |-> l2cap_data[1], l2cap_data |-> l2cap_data])

\* att_value.decode("utf-8") succeeds: ASCII bytes do, the other bytes of the
\* model (255) do not
IsUtf8(b) == \A i \in 1..Len(b) : b[i] < 128

\* _parse_att_write(att_opcode, l2cap_data, flags, packet_num)
parse_att_write(att_opcode, l2cap_data, flags, num) ==
  IF att_opcode \notin {18, 82} THEN None          \* 0x12, 0x52
  ELSE IF Len(l2cap_data) < 3 THEN None
  ELSE LET att_value == From(l2cap_data, 3)
       IN  Some([ packet |-> num,
                  direction |-> IF flags % 2 = 1 THEN "RECV" ELSE "SENT",
                  opcode |-> IF att_opcode = 18 THEN "Write Request" ELSE "Write Command",
                  handle |-> U16LE(Slice(l2cap_data, 1, 3)),
                  value |-> [text |-> IsUtf8(att_value), of |-> att_value],
                  hex |-> att_value ])

(***************************************************************************)
(* The files given to parse_btsnoop, built as tests/test_parse_btsnoop.py  *)
(* builds them: a file header, records, and perhaps a cut record at the    *)
(* end.                                                                    *)
(***************************************************************************)
\* records in a file
MaxRecords == 2

\* _make_record(flags, packet)
MakeRecord(flags, pkt) ==
  Pack32BE(Len(pkt)) \o Pack32BE(Len(pkt)) \o Pack32BE(flags) \o Pack32BE(0)
    \o Pack32BE(0) \o Pack32BE(0) \o pkt

\* an HCI ACL packet carrying l2cap_payload on the channel cid
AclPacket(cid, l2cap_payload) ==
  <<2>> \o Pack16LE(64) \o Pack16LE(4 + Len(l2cap_payload))
    \o Pack16LE(Len(l2cap_payload)) \o Pack16LE(cid) \o l2cap_payload

\* the records of the model: ATT Write Request of "ON" to handle 0x0015, sent
\* and received; ATT Write Command of a byte that is not UTF-8; an ATT
\* notification; a write cut after the opcode; a packet on another channel;
\* an HCI event; a packet of three bytes; an empty packet
Records ==
  { MakeRecord(0, AclPacket(4, <<18, 21, 0, 79, 78>>)),
    MakeRecord(1, AclPacket(4, <<18, 21, 0, 79, 78>>)),
    MakeRecord(0, AclPacket(4, <<82, 21, 0, 255>>)),
    MakeRecord(0, AclPacket(4, <<27, 21, 0, 79>>)),
    MakeRecord(0, AclPacket(4, <<18, 21>>)),
    MakeRecord(0, AclPacket(5, <<18, 21, 0, 79, 78>>)),
    MakeRecord(0, <<4, 0, 1, 2, 3>>),
    MakeRecord(0, <<2, 1, 2>>),
    MakeRecord(0, <<>>) }

\* up to n records one after the other
RECURSIVE Bodies(_)
Bodies(n) ==
  IF n = 0 THEN {<<>>}
  ELSE Bodies(n - 1) \cup { b \o r : b \in Bodies(n - 1), r \in Records }

\* what follows the last record: nothing, ten bytes of a record header, or a
\* record header announcing 100 bytes with 5 behind it
Tails ==
  { <<>>,
    <<0, 0, 0, 0, 0, 0, 0, 0, 0, 0>>,
    Pack32BE(100) \o Pack32BE(100) \o Pack32BE(0) \o Pack32BE(0) \o Pack32BE(0)
      \o Pack32BE(0) \o <<0, 0, 0, 0, 0>> }

\* complete file headers: version 1, datalink 1002 (HCI monitor) or 1001
Headers == { Magic \o Pack32BE(1) \o Pack32BE(datalink) : datalink \in {1001, 1002} }

\* what is not a complete file header: nothing, five bytes of the magic, 16
\* bytes that are not the magic (b"not_btsnoop_data"), the magic alone, the
\* magic and the version, the magic and 7 of the 8 bytes after it
BadHeaders ==
  { <<>>,
    Slice(Magic, 0, 5),
    <<110, 111, 116, 95, 98, 116, 115, 110, 111, 111, 112, 95, 100, 97, 116, 97>>,
    Magic,
    Magic \o Pack32BE(1),
    Magic \o Pack32BE(1) \o <<0, 0, 3>> }

Files ==
  { h \o b \o t : h \in Headers, b \in Bodies(MaxRecords), t \in Tails }
    \cup BadHeaders
    \cup { h \o r : h \in {x \in BadHeaders : Len(x) = 16}, r \in Records }

\* with open(filepath, "rb") as f:
SnoopInit ==
  /\ file \in { [data |-> d, pos |-> 0] : d \in Files }
  /\ file_header = NoCall
  /\ packet_num = 0
  /\ att_writes = <<>>
  /\ stdout = <<>>
  /\ raised = "none"
  /\ line = "header"

\* result = _read_file_header(f) and what parse_btsnoop does with it
ReadFileHeader ==
  /\ line = "header"
  /\ LET result == read_file_header(Read(file, 16))
     IN  /\ file' = Advance(file, 16)
         /\ file_header' = result
         /\ CASE result = None ->
                   /\ stdout' = Append(stdout, [t |-> "Not a valid btsnoop file"])
                   /\ line' = "return"
                   /\ UNCHANGED raised
              [] result.t = "raise" ->
                   /\ raised' = result.exc
                   /\ line' = "return"
                   /\ UNCHANGED stdout
              [] OTHER ->
                   /\ stdout' = Append(stdout, [t |-> "btsnoop version", version |-> result.version,
                                                datalink |-> result.datalink])
                   /\ line' = "loop"
                   /\ UNCHANGED raised
  /\ UNCHANGED <<packet_num, att_writes>>
  /\ UNCHANGED codecVars
  /\ UNCHANGED sessionVars

\* one turn of `while True:` in which _read_record returns a record
ReadRecord ==
  /\ line = "loop"
  /\ \E r \in {read_record(file)} :
       /\ r.record # None
       /\ file' = r.f
       /\ packet_num' = packet_num + 1
       /\ LET record == r.record
              hci_data == extract_acl_data(file_header.datalink, record.packet)
              att_result == extract_att_payload(hci_data.v)
              write == parse_att_write(att_result.v.att_opcode, att_result.v.l2cap_data,
                                       record.flags, packet_num + 1)
          IN  att_writes' = IF hci_data = None THEN att_writes
                            ELSE IF att_result = None THEN att_writes
                            ELSE IF write = None THEN att_writes
                            ELSE Append(att_writes, write.v)
  /\ UNCHANGED <<file_header, stdout, raised, line>>
  /\ UNCHANGED codecVars
  /\ UNCHANGED sessionVars

\* the turn in which _read_record returns None: break, then _print_results
PrintResults ==
  /\ line = "loop"
  /\ \E r \in {read_record(file)} :
       /\ r.record = None
       /\ file' = r.f
  /\ stdout' = Append(stdout, [t |-> "results", total |-> packet_num,
                               found |-> Len(att_writes), writes |-> att_writes])
  /\ line' = "return"
  /\ UNCHANGED <<file_header, packet_num, att_writes, raised>>
  /\ UNCHANGED codecVars
  /\ UNCHANGED sessionVars

SnoopNext ==
  \/ ReadFileHeader
  \/ ReadRecord
  \/ PrintResults

\* parse_btsnoop alone
InitBtsnoop == CodecInit /\ SessionIdle /\ SnoopInit
SpecBtsnoop == InitBtsnoop /\ [][SnoopNext]_vars

\* ... run to its end: the interpreter executes the next statement
SpecBtsnoopLive == InitBtsnoop /\ [][SnoopNext]_vars /\ WF_vars(SnoopNext)

(***************************************************************************)
(* Properties of parse_state (SpecCodec)                                   *)
(***************************************************************************)
\* the keys of a params dict
Keys(params) == { params.v[i].k : i \in 1..Len(params.v) }

\* resp is a decoded message of kind `kind`
IsKind(resp, kind) == resp.t = "response" /\ resp.type = JInt(kind)

\* the message carries a value for the state field
Carries(params, field_name) ==
  \/ \E i \in 1..Len(PARAM_TO_FIELD) :
        PARAM_TO_FIELD[i][2] = field_name /\ Has(params, PARAM_TO_FIELD[i][1])
  \/ field_name \in {"red", "green", "blue"} /\ Has(params, PARAM_BACKGROUND_COLOR)

\* C4: of two Status messages applied one after the other, the second with
\* fewer fields, every field absent from the second keeps after the second
\* apply the value it had after the first.
C4_AbsentFieldsKept ==
  ( /\ IsKind(prevParsed, MSG_TYPE_STATUS)
    /\ IsKind(lastParsed, MSG_TYPE_STATUS)
    /\ Cardinality(Keys(lastParsed.params)) < Cardinality(Keys(prevParsed.params)) )
  => \A f \in Fields : ~Carries(lastParsed.params, f) => state[f] = prevState[f]

\* C5: a Status message with only the key Power, applied to a freshly
\* constructed device state, sets power_level to its value and leaves every
\* other field at its default.
C5_PowerOnly ==
  ( /\ IsKind(lastParsed, MSG_TYPE_STATUS)
    /\ Keys(lastParsed.params) = {PARAM_POWER}
    /\ prevState = XenopixelState )
  => state = [XenopixelState EXCEPT !.power_level = Get(lastParsed.params, PARAM_POWER)]

\* C5 happens: [3,{"Power":63}] was applied to the default state
C5_Witness ==
  /\ IsKind(lastParsed, MSG_TYPE_STATUS)
  /\ Keys(lastParsed.params) = {PARAM_POWER}
  /\ prevState = XenopixelState
  /\ state.power_level = JInt(63)
  /\ state.brightness = JInt(100)

\* C6: applying a decoded message whose kind is not Status (3) changes no
\* field of the device state.
C6_OnlyStatusMutates ==
  ( /\ lastParsed.t = "response"
    /\ ~IsKind(lastParsed, MSG_TYPE_STATUS) )
  => state = prevState

(***************************************************************************)
(* Properties of the sessions (Spec)                                       *)
(***************************************************************************)
\* a command message: anything but the handshake and authorize messages
IsCommand(bytes) == bytes \notin {encode_handshake, encode_authorize}

\* the write was the handshake, acknowledged, on the primary characteristic
IsHandshakeWrite(w) ==
  w.data = encode_handshake /\ w.char = CHAR_CONTROL_UUID /\ w.response /\ w.ok

\* the write was the authorize message on the alternate characteristic
IsAuthorizeWrite(w) ==
  w.data = encode_authorize /\ w.char = CHAR_CONTROL_ALT_UUID /\ w.ok

\* the notification is [3,{"Authorize":"AccessAllowed"}] on the alternate characteristic
IsAccessAllowed(n) ==
  /\ n.char = CHAR_CONTROL_ALT_UUID
  /\ LET r == decode_response(n.data)
     IN  /\ IsKind(r, MSG_TYPE_STATUS)
         /\ Has(r.params, PARAM_AUTHORIZE)
         /\ Get(r.params, PARAM_AUTHORIZE) = JStr(AUTHORIZE_RESPONSE)

\* C1: a command message is transmitted only while the session is
\* Authorized (the Authorize=AccessAllowed notification was received); in any
\* other state it is never transmitted.
C1_CommandsOnlyWhenAuthorized ==
  \A i \in 1..Len(writes) :
     (IsCommand(writes[i].data) /\ writes[i].ok) => writes[i].authorized

\* C2: the authorize message is written only after the handshake write was
\* acknowledged, and the session is Authorized only in a run in which the
\* handshake write and then the authorize write have happened.
C2_HandshakeAuthorizeOrder ==
  /\ \A j \in 1..Len(writes) :
        IsAuthorizeWrite(writes[j]) => \E i \in 1..(j - 1) : IsHandshakeWrite(writes[i])
  /\ authorized =>
        \E i, j \in 1..Len(writes) :
           i < j /\ IsHandshakeWrite(writes[i]) /\ IsAuthorizeWrite(writes[j])

\* C3: the session becomes Authorized only on a notification on the
\* alternate characteristic that decodes to a Status message whose Authorize
\* parameter is exactly "AccessAllowed".
C3_OnlyAccessAllowedAuthorizes ==
  [][(~authorized /\ authorized') => IsAccessAllowed(notification')]_vars

\* C7: a run whose authorization wait timed out ends Failed(timeout), with
\* no write made after the timeout.
C7_TimeoutEndsSession ==
  (timed_out /\ pc = "done") =>
     /\ error = "timeout"
     /\ \A i \in 1..Len(writes) : ~writes[i].timed_out

\* C8: after a failed write no further write is issued in the session.
C8_NoWriteAfterFailedWrite ==
  \A i \in 1..(Len(writes) - 1) : writes[i].ok

\* C9: however the session ends (normally, after an authorization timeout,
\* or on a failed write or read), notifications have been unsubscribed on
\* both characteristics and the session is Disconnected.
C9_EndsUnsubscribed ==
  (pc = "done" /\ error \in {"none", "write", "read"}) =>
     notifying = {} /\ ~connected

\* C10: a Status notification delivered on a subscribed characteristic, in
\* whatever session state, has been decoded and applied to the device state.
C10_StatusNotificationsApplied ==
  (notification # NoCall /\ IsKind(decode_response(notification.data), MSG_TYPE_STATUS))
  => /\ lastParsed = decode_response(notification.data)
     /\ state = parse_state(lastParsed)

\* the write, made or in flight, uses the write mode of its characteristic
ModeMatches(w) ==
  /\ w.char = CHAR_CONTROL_UUID => w.response
  /\ w.char = CHAR_CONTROL_ALT_UUID => ~w.response

\* the write is on the characteristic the authorization flow gives its message
RoutedByMessage(w) ==
  /\ w.data = encode_handshake => w.char = CHAR_CONTROL_UUID
  /\ w.data = encode_authorize => w.char = CHAR_CONTROL_ALT_UUID

C12_OneWriteInFlight ==
  \A i, j \in 1..Len(inflight) :
     i # j => inflight[i].char # inflight[j].char

\* C12 happens: a write is in flight and the AccessAllowed notification arrived
\* after it was called
C12_Witness ==
  /\ Len(inflight) = 1
  /\ notification # NoCall
  /\ authorized /\ ~inflight[1].authorized

\* C27: once the session is Authorized, receiving Authorize=AccessAllowed
\* again, any number of times, leaves it Authorized, raises no error and
\* causes no write and no other change of the session.
C27_RedundantAuthorizeIsNoOp ==
  [][ (authorized /\ delivered' = delivered + 1 /\ IsAccessAllowed(notification'))
      => /\ authorized'
         /\ UNCHANGED <<pc, connected, notifying, status_received, timed_out, writes,
                        inflight, error>> ]_vars

\* C27 happens: [3,{"Authorize":"AccessAllowed"}] was notified on the alternate
\* characteristic with the session already Authorized, and no error ended the run
C27_Witness ==
  /\ notification # NoCall
  /\ notification.authorized
  /\ IsAccessAllowed(notification)
  /\ authorized
  /\ error = "none"

(***************************************************************************)
(* Properties of decode_response (SpecCodec)                               *)
(***************************************************************************)
\* the JSON value the bytes are the text of, None if they are not UTF-8 or
\* not JSON text
JsonOf(bytes) ==
  IF bytes.utf8 /\ (\E e \in DumpsOf : e.text = bytes.text)
  THEN (CHOOSE e \in DumpsOf : e.text = bytes.text).doc
  ELSE None

\* the bytes are the text of a JSON array of two or more elements
IsMessageArray(bytes) ==
  JsonOf(bytes).t = "list" /\ Len(JsonOf(bytes).v) >= 2

\* C13: decode_response returns None, and raises nothing, for every input
\* that is not valid UTF-8, not valid JSON, JSON that is not an array, or an
\* array of fewer than two elements.
C13_InvalidInputGivesNone ==
  (data # NoCall /\ ~IsMessageArray(data)) => response = None

\* C14: decode_response returns None for every array whose first element is
\* not an integer, whatever the second element is.
C14_NonIntegerKindRejected ==
  ( /\ data # NoCall
    /\ IsMessageArray(data)
    /\ JsonOf(data).v[1].t \notin {"int", "bigint"} )
  => response = None

\* C15: for every array of two or more elements whose first element is an
\* integer, decode_response returns that integer as the kind, with the second
\* element as params if it is an object and empty params if it is not; later
\* elements are ignored.
C15_IntegerKindDecoded ==
  ( /\ data # NoCall
    /\ IsMessageArray(data)
    /\ JsonOf(data).v[1].t \in {"int", "bigint"} )
  => response = [ t |-> "response",
                  type |-> JsonOf(data).v[1],
                  params |-> IF JsonOf(data).v[2].t = "dict"
                             THEN JsonOf(data).v[2] ELSE JDict(<<>>) ]

(***************************************************************************)
(* Properties of the encoders (SpecEncode)                                 *)
(***************************************************************************)
\* the last encoder call was of the method `name`
Called(name) == call # NoCall /\ call.fn = name

\* x clamped into [lo, hi]
Clamp(x, lo, hi) == IF x < lo THEN lo ELSE IF x > hi THEN hi ELSE x

\* the text [2,{"<key>":<value>}]
CommandText(key, value) ==
  <<"[", "2", ",", "{", "\"", key, "\"", ":">> \o value \o <<"}", "]">>

\* the text of a boolean
BoolText(b) == IF b THEN <<"true">> ELSE <<"false">>

\* C16: decoding encode_color(r, g, b) gives kind 2 and the BackgroundColor
\* array of r, g, b in that order, each clamped into [0, 255], for every
\* r, g, b, in range or not.
C16_ColorClamped ==
  Called("encode_color") =>
     decode_response(packet) =
       [ t |-> "response",
         type |-> JInt(2),
         params |-> JDict(<<KV("BackgroundColor",
                               JList(<<JInt(Clamp(call.args[1], 0, 255)),
                                       JInt(Clamp(call.args[2], 0, 255)),
                                       JInt(Clamp(call.args[3], 0, 255))>>))>>) ]

\* C16 happens: encode_color(-1, 256, 128) gave [2,{"BackgroundColor":[0,255,128]}]
C16_Witness ==
  /\ Called("encode_color")
  /\ call.args = <<-1, 256, 128>>
  /\ packet = Encode(CommandText("BackgroundColor", <<"[", "0", ",", "255", ",", "128", "]">>))

\* C17: encode_brightness(v) and encode_volume(v) emit v clamped into
\* [0, 100], encode_light_effect(v) emits v clamped into [1, 9]; a value in
\* range is emitted as it is.
C17_LevelsClamped ==
  /\ Called("encode_brightness") =>
        packet = Encode(CommandText("Brightness", <<ToString(Clamp(call.args[1], 0, 100))>>))
  /\ Called("encode_volume") =>
        packet = Encode(CommandText("Volume", <<ToString(Clamp(call.args[1], 0, 100))>>))
  /\ Called("encode_light_effect") =>
        packet = Encode(CommandText("CurrentLightEffect",
                                    <<ToString(Clamp(call.args[1], 1, 9))>>))

\* C17 happens: encode_light_effect(0) gave [2,{"CurrentLightEffect":1}]
C17_Witness ==
  /\ Called("encode_light_effect")
  /\ call.args = <<0>>
  /\ packet = Encode(<<"[", "2", ",", "{", "\"", "CurrentLightEffect", "\"", ":", "1", "}", "]">>)

\* C18 (as amended): for every integer n that Python converts to text (up to
\* 4300 digits), negative ones included, encode_sound_font(n) emits
\* [2,{"CurrentSoundPackageNo":n}] with n unchanged.
C18_SoundFontUnclamped ==
  (Called("encode_sound_font") /\ call.args[1].t = "int") =>
     packet = Encode(CommandText("CurrentSoundPackageNo", <<ToString(call.args[1].v)>>))

\* C18 happens: encode_sound_font(-3) gave [2,{"CurrentSoundPackageNo":-3}]
C18_Witness ==
  /\ Called("encode_sound_font")
  /\ call.args = <<JInt(-3)>>
  /\ packet = Encode(<<"[", "2", ",", "{", "\"", "CurrentSoundPackageNo", "\"", ":", "-3",
                       "}", "]">>)

\* C18 (as stated): for every integer n, however large, encode_sound_font(n)
\* emits [2,{"CurrentSoundPackageNo":n}] with n unchanged.
C18_SoundFontAnyInteger ==
  Called("encode_sound_font") =>
     packet = Encode(CommandText("CurrentSoundPackageNo",
                                 <<IF call.args[1].t = "int" THEN ToString(call.args[1].v)
                                   ELSE call.args[1].v>>))

\* C19: encode_handshake() is exactly [2,{"HandShake":"HelloDamien"}] and
\* encode_authorize() exactly [2,{"Authorize":"SaberOfDamien"}]; each decodes
\* to kind 2 with that one key and value.
C19_HandshakeAuthorizeExact ==
  /\ Called("encode_handshake") =>
        /\ packet = Encode(CommandText("HandShake", <<"\"", "HelloDamien", "\"">>))
        /\ decode_response(packet) =
             [ t |-> "response", type |-> JInt(2),
               params |-> JDict(<<KV("HandShake", JStr("HelloDamien"))>>) ]
  /\ Called("encode_authorize") =>
        /\ packet = Encode(CommandText("Authorize", <<"\"", "SaberOfDamien", "\"">>))
        /\ decode_response(packet) =
             [ t |-> "response", type |-> JInt(2),
               params |-> JDict(<<KV("Authorize", JStr("SaberOfDamien"))>>) ]

\* C19 happens: encode_authorize() was called and gave the authorize bytes
C19_Witness ==
  /\ Called("encode_authorize")
  /\ packet = Encode(<<"[", "2", ",", "{", "\"", "Authorize", "\"", ":",
                       "\"", "SaberOfDamien", "\"", "}", "]">>)

\* C20: on the class tests/test_protocol.py imports, encode_clash(),
\* encode_blaster() and encode_force() return [2,{"<Name>":true}] and
\* encode_lockup(on), encode_drag(on) return [2,{"<Name>":on}].
C20_TestedCombatEncoders ==
  (call # NoCall /\ call.module = TestedModule) =>
     /\ Called("encode_clash") => packet = Encode(CommandText("Clash", <<"true">>))
     /\ Called("encode_blaster") => packet = Encode(CommandText("Blaster", <<"true">>))
     /\ Called("encode_force") => packet = Encode(CommandText("Force", <<"true">>))
     /\ Called("encode_lockup") =>
           packet = Encode(CommandText("Lockup", BoolText(call.args[1])))
     /\ Called("encode_drag") =>
           packet = Encode(CommandText("Drag", BoolText(call.args[1])))

(***************************************************************************)
(* Every encoder and its decoding (SpecEncode)                             *)
(***************************************************************************)
\* the method called is one the called class defines
IsEncodeOperation == call # NoCall /\ call.fn \in Methods(call.module)

\* no argument of the call is over the integer conversion limit
ArgsConvertible == call.fn = "encode_sound_font" => ~HasBigInt(call.args[1])

\* the parameter key each encode operation is to emit
ExpectedKey ==
  CASE call.fn = "encode_handshake" -> "HandShake"
    [] call.fn = "encode_authorize" -> "Authorize"
    [] call.fn \in {"encode_power_on", "encode_power_off"} -> "PowerOn"
    [] call.fn = "encode_color" -> "BackgroundColor"
    [] call.fn = "encode_brightness" -> "Brightness"
    [] call.fn = "encode_volume" -> "Volume"
    [] call.fn = "encode_sound_font" -> "CurrentSoundPackageNo"
    [] call.fn = "encode_light_effect" -> "CurrentLightEffect"
    [] call.fn = "encode_clash" -> "Clash"
    [] call.fn = "encode_blaster" -> "Blaster"
    [] call.fn = "encode_force" -> "Force"
    [] call.fn = "encode_lockup" -> "Lockup"
    [] call.fn = "encode_drag" -> "Drag"

\* the value it is to emit for the arguments of the call, clamped where the
\* operation clamps
ExpectedValue ==
  CASE call.fn = "encode_handshake" -> JStr("HelloDamien")
    [] call.fn = "encode_authorize" -> JStr("SaberOfDamien")
    [] call.fn = "encode_power_on" -> JBool(TRUE)
    [] call.fn = "encode_power_off" -> JBool(FALSE)
    [] call.fn = "encode_color" ->
         JList(<<JInt(Clamp(call.args[1], 0, 255)), JInt(Clamp(call.args[2], 0, 255)),
                 JInt(Clamp(call.args[3], 0, 255))>>)
    [] call.fn \in {"encode_brightness", "encode_volume"} ->
         JInt(Clamp(call.args[1], 0, 100))
    [] call.fn = "encode_sound_font" -> call.args[1]
    [] call.fn = "encode_light_effect" -> JInt(Clamp(call.args[1], 1, 9))
    [] call.fn \in {"encode_clash", "encode_blaster", "encode_force"} -> JBool(TRUE)
    [] call.fn \in {"encode_lockup", "encode_drag"} -> JBool(call.args[1])

\* the text of a value, written without whitespace
RECURSIVE ValueText(_)
ValueText(j) ==
  CASE j.t = "int" -> <<ToString(j.v)>>
    [] j.t = "bigint" -> <<j.v>>
    [] j.t = "bool" -> BoolText(j.v)
    [] j.t = "str" -> <<"\"", j.v, "\"">>
    [] j.t = "list" ->
         <<"[">> \o ValueText(j.v[1]) \o <<",">> \o ValueText(j.v[2]) \o <<",">>
           \o ValueText(j.v[3]) \o <<"]">>

\* the call returned [2,{"<key>":<value>}] without whitespace, and
\* decode_response gives it back as kind 2 with that one parameter
RoundTrips ==
  /\ packet = Encode(CommandText(ExpectedKey, ValueText(ExpectedValue)))
  /\ decode_response(packet) =
       [ t |-> "response", type |-> JInt(2),
         params |-> JDict(<<KV(ExpectedKey, ExpectedValue)>>) ]

\* C21 (as amended): every encode operation, called with integers that Python
\* converts to text (up to 4300 digits), returns the two-element array
\* [2,{key:value}] with exactly one key and no whitespace, and decode_response
\* of it returns kind 2 and exactly that parameter with the clamped value.
C21_EncodeRoundTrip ==
  (IsEncodeOperation /\ ArgsConvertible) => RoundTrips

\* C21 happens: encode_volume(103) gave [2,{"Volume":100}], which decodes to
\* kind 2 and Volume 100
C21_Witness ==
  /\ Called("encode_volume")
  /\ call.args = <<103>>
  /\ packet = Encode(<<"[", "2", ",", "{", "\"", "Volume", "\"", ":", "100", "}", "]">>)
  /\ decode_response(packet).params = JDict(<<KV("Volume", JInt(100))>>)

\* C21 (as stated): every encode operation, whatever its arguments, returns
\* such an array, and decode_response gives the parameter back.
C21_EveryCallRoundTrips ==
  IsEncodeOperation => RoundTrips

(***************************************************************************)
(* Properties of the device state (SpecCodec, SpecTestedCodec)             *)
(***************************************************************************)
\* what test_parse_state_full_status_with_combat_effects asserts of the state
\* parsed from the full status dump
FullStatusWithCombatExpected ==
  [ hardware_version |-> JStr("XENOA04525CW13907"),
    software_version |-> JStr("DMN_XENO_B_SV1.4.0"),
    is_on |-> JBool(FALSE),
    sound_font |-> JInt(0), total_sound_fonts |-> JInt(34),
    light_effect |-> JInt(0), total_light_effects |-> JInt(8),
    current_lockup |-> JInt(0), total_lockup |-> JInt(1),
    current_drag |-> JInt(0), total_drag |-> JInt(1),
    current_blaster |-> JInt(0), total_blaster |-> JInt(3),
    current_clash |-> JInt(0), total_clash |-> JInt(3),
    current_force |-> JInt(0), total_force |-> JInt(2),
    current_post_off |-> JInt(0), total_post_off |-> JInt(0),
    current_mode |-> JInt(0), total_mode |-> JInt(8),
    preon_time |-> JInt(0),
    power_level |-> JInt(100), volume |-> JInt(10),
    red |-> JInt(255), green |-> JInt(230), blue |-> JInt(103),
    brightness |-> JInt(100) ]

\* the device state has each field of `expected`, with its value
HasFields(st, expected) ==
  \A f \in DOMAIN expected : f \in DOMAIN st /\ st[f] = expected[f]

\* C22: on the codec the tests import, applying the Status message that
\* carries every recognized key sets every corresponding field of the device
\* state to the value carried, BackgroundColor [r,g,b] as red=r, green=g,
\* blue=b.
C22_FullStatusPopulatesEveryField ==
  (IsKind(lastParsed, MSG_TYPE_STATUS) /\ lastParsed.params = FullStatusWithCombat)
  => HasFields(state, FullStatusWithCombatExpected)

\* the message carries a BackgroundColor array of fewer than three elements
HasShortColor(params) ==
  /\ Has(params, PARAM_BACKGROUND_COLOR)
  /\ Get(params, PARAM_BACKGROUND_COLOR).t = "list"
  /\ Len(Get(params, PARAM_BACKGROUND_COLOR).v) < 3

\* a device state, not the None parse_state returns for None
IsState(st) == st \notin {None, NoCall}

\* C23: applying a message whose BackgroundColor array has fewer than three
\* elements leaves red, green and blue at their prior values, and still
\* applies the other recognized keys of the message.
C23_ShortColorIsNoOp ==
  (lastParsed.t = "response" /\ HasShortColor(lastParsed.params) /\ IsState(prevState))
  => /\ state.red = prevState.red
     /\ state.green = prevState.green
     /\ state.blue = prevState.blue
     /\ \A i \in 1..Len(PARAM_TO_FIELD) :
           Has(lastParsed.params, PARAM_TO_FIELD[i][1]) =>
              state[PARAM_TO_FIELD[i][2]] = Get(lastParsed.params, PARAM_TO_FIELD[i][1])

\* the keys of the recognized parameter table, and BackgroundColor
RecognizedKeys ==
  { PARAM_TO_FIELD[i][1] : i \in 1..Len(PARAM_TO_FIELD) } \cup {PARAM_BACKGROUND_COLOR}

\* the params without their unrecognized keys
Recognized(params) ==
  JDict(SelectSeq(params.v, LAMBDA pair : pair.k \in RecognizedKeys))

\* C24: applying a message with only unrecognized keys leaves every field of
\* the device state unchanged, and a message with unrecognized keys added
\* gives the same device state as the message without them.
C24_UnrecognizedKeysIgnored ==
  /\ ( /\ lastParsed.t = "response"
       /\ Keys(lastParsed.params) # {}
       /\ Keys(lastParsed.params) \cap RecognizedKeys = {}
       /\ IsState(prevState) )
     => state = prevState
  /\ ( /\ lastParsed.t = "response"
       /\ prevParsed.t = "response"
       /\ Recognized(lastParsed.params) = prevParsed.params )
     => state = prevState

\* what test_default_state asserts of XenopixelState()
DefaultStateExpected ==
  [ is_on |-> JBool(FALSE), power_level |-> JInt(0),
    red |-> JInt(255), green |-> JInt(255), blue |-> JInt(255),
    brightness |-> JInt(100), volume |-> JInt(0),
    sound_font |-> JInt(0), total_sound_fonts |-> JInt(0),
    light_effect |-> JInt(0), total_light_effects |-> JInt(0),
    lockup |-> JBool(FALSE), current_lockup |-> JInt(0), total_lockup |-> JInt(0),
    drag |-> JBool(FALSE), current_drag |-> JInt(0), total_drag |-> JInt(0),
    current_blaster |-> JInt(0), total_blaster |-> JInt(0),
    current_clash |-> JInt(0), total_clash |-> JInt(0),
    current_force |-> JInt(0), total_force |-> JInt(0),
    current_post_off |-> JInt(0), total_post_off |-> JInt(0),
    current_mode |-> JInt(0), total_mode |-> JInt(0),
    preon_time |-> JInt(0),
    hardware_version |-> JStr(""), software_version |-> JStr("") ]

\* C25: a newly constructed XenopixelState of the codec the tests import has
\* power off, battery 0, red=green=blue=255, brightness 100, volume 0, lockup
\* and drag false, every current/total counter and the pre-on time 0, and
\* empty version strings.
C25_DefaultState ==
  lastParsed = NoCall => HasFields(state, DefaultStateExpected)

\* the value is an integer of [lo, hi]
InRange(j, lo, hi) == j.t = "int" /\ lo <= j.v /\ j.v <= hi

\* the value the last applied message carries for a key, the default if it
\* carries none
CarriedOr(key, default) ==
  IF lastParsed.t = "response" /\ Has(lastParsed.params, key)
  THEN Get(lastParsed.params, key) ELSE default

\* the BackgroundColor channel the last applied message carries, 255 if it
\* carries no array of three elements
ChannelOr255(i) ==
  LET color == CarriedOr("BackgroundColor", JNull)
  IN  IF color.t = "list" /\ Len(color.v) >= 3 THEN color.v[i] ELSE JInt(255)

\* C26 (as amended): in every reachable device state each of red, green,
\* blue, brightness, volume and the light-effect index holds the value the
\* last applied message carries for it, unchanged, or its default (255, 255,
\* 255, 100, 0, 0) if the message carries none; so the channels are within
\* 0..255, brightness and volume within 0..100 and the light-effect index
\* within 0..9 whenever the carried values are.
C26_FieldsCarriedOrDefault ==
  IsState(state) =>
     /\ state.red = ChannelOr255(1)
     /\ state.green = ChannelOr255(2)
     /\ state.blue = ChannelOr255(3)
     /\ state.brightness = CarriedOr("Brightness", JInt(100))
     /\ state.volume = CarriedOr("Volume", JInt(0))
     /\ state.light_effect = CarriedOr("CurrentLightEffect", JInt(0))
     /\ ( /\ \A i \in 1..3 : InRange(ChannelOr255(i), 0, 255)
          /\ InRange(CarriedOr("Brightness", JInt(100)), 0, 100)
          /\ InRange(CarriedOr("Volume", JInt(0)), 0, 100)
          /\ InRange(CarriedOr("CurrentLightEffect", JInt(0)), 0, 9) )
        => /\ InRange(state.red, 0, 255)
           /\ InRange(state.green, 0, 255)
           /\ InRange(state.blue, 0, 255)
           /\ InRange(state.brightness, 0, 100)
           /\ InRange(state.volume, 0, 100)
           /\ InRange(state.light_effect, 0, 9)

\* C26 happens: the message with Brightness 300, Volume -5, CurrentLightEffect
\* 12 and BackgroundColor [256,-1,0] was applied, and the state holds them
C26_Witness ==
  /\ IsKind(lastParsed, MSG_TYPE_STATUS)
  /\ lastParsed.params = OutOfRangeStatus
  /\ state.brightness = JInt(300)
  /\ state.volume = JInt(-5)
  /\ state.light_effect = JInt(12)
  /\ state.red = JInt(256)

\* C26 (as stated): in every reachable device state each RGB channel is
\* within 0..255, brightness and volume are within 0..100 and the
\* light-effect index is within 1..9.
C26_FieldsInRange ==
  IsState(state) =>
     /\ InRange(state.red, 0, 255)
     /\ InRange(state.green, 0, 255)
     /\ InRange(state.blue, 0, 255)
     /\ InRange(state.brightness, 0, 100)
     /\ InRange(state.volume, 0, 100)
     /\ InRange(state.light_effect, 1, 9)

(***************************************************************************)
(* Properties of parse_btsnoop (SpecBtsnoop, SpecBtsnoopLive)              *)
(***************************************************************************)
\* the file starts with a complete valid header: the 8 magic bytes and 8 more
HasValidHeader == Len(file.data) >= 16 /\ SubSeq(file.data, 1, 8) = Magic

\* the incl_len field of the record header at offset off: bytes 4..7, big-endian
InclLenAt(d, off) ==
  ((d[off + 5] * 256 + d[off + 6]) * 256 + d[off + 7]) * 256 + d[off + 8]

\* a complete record starts at offset off: 24 header bytes and incl_len packet
\* bytes are there
CompleteAt(d, off) ==
  Len(d) - off >= 24 /\ Len(d) - off - 24 >= InclLenAt(d, off)

\* the offset after the first k records from offset off on, or the first
\* offset before it at which no complete record starts
RECURSIVE RecordsEnd(_, _, _)
RecordsEnd(d, off, k) ==
  IF k = 0 \/ ~CompleteAt(d, off) THEN off
  ELSE RecordsEnd(d, off + 24 + InclLenAt(d, off), k - 1)

\* the number of complete records from offset off up to the first point where
\* fewer than 24 header bytes or fewer than incl_len packet bytes remain
RECURSIVE CompleteRecords(_, _)
CompleteRecords(d, off) ==
  IF ~CompleteAt(d, off) THEN 0
  ELSE 1 + CompleteRecords(d, off + 24 + InclLenAt(d, off))

\* the line _print_results printed last
Reported == stdout[Len(stdout)]

\* C28: for every file with a valid 16-byte header the record loop of
\* parse_btsnoop terminates; it stops at the first point where fewer than 24
\* header bytes or fewer than incl_len packet bytes remain, the total it
\* reports is the number of complete records before that point, and the
\* number of ATT writes it reports never exceeds that total.
C28_RecordLoopTerminates ==
  /\ HasValidHeader ~> (line = "return")
  /\ []((HasValidHeader /\ line = "loop") =>
          /\ packet_num <= CompleteRecords(file.data, 16)
          /\ file.pos = RecordsEnd(file.data, 16, packet_num)
          /\ Len(att_writes) <= packet_num)
  /\ []((HasValidHeader /\ line = "return") =>
          /\ raised = "none"
          /\ ~CompleteAt(file.data, RecordsEnd(file.data, 16, packet_num))
          /\ Reported.t = "results"
          /\ Reported.total = CompleteRecords(file.data, 16)
          /\ Reported.found = Len(att_writes)
          /\ Reported.found <= Reported.total)

\* C28 happens: a file of two records, one of them an ATT write, and a cut
\* record after them was read to its end, and 2 packets and 1 write reported
C28_Witness ==
  /\ HasValidHeader
  /\ line = "return"
  /\ CompleteRecords(file.data, 16) = 2
  /\ RecordsEnd(file.data, 16, 2) < Len(file.data)
  /\ Reported.t = "results"
  /\ Reported.total = 2
  /\ Reported.found = 1

\* C30: for every input that is not a complete valid header (wrong magic, an
\* empty file, the 8 magic bytes with fewer than 16 header bytes in all)
\* _read_file_header returns None, and parse_btsnoop processes no record and
\* raises nothing.
C30_InvalidHeaderGivesNone ==
  (line = "return" /\ ~HasValidHeader) =>
     /\ file_header = None
     /\ raised = "none"
     /\ packet_num = 0
     /\ att_writes = <<>>
     /\ \A i \in 1..Len(stdout) : stdout[i].t # "results"

\* C29: the codec of src/xenopixel_ble and the codec the tests import are
\* equivalent on what the tests exercise: given the same decoded message,
\* parse_state of either yields a device state of the same fields and values.
C29_VariantsEquivalent ==
  lastParsed # NoCall => state = parse_state(lastParsed)

====
